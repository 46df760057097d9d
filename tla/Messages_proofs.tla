--------------------------- MODULE Messages_proofs ---------------------------
(***************************************************************************)
(* Proofs about Messages, for any accounts, devices, handlers in flight,   *)
(* page size and bounds: its types, that a deletion takes the text with    *)
(* it, who can download an attachment, what a read receipt says, which     *)
(* messages a connected device can miss, also across instances and the     *)
(* lossy relay between them, and how often one that is sent again is       *)
(* stored.                                                                 *)
(***************************************************************************)
EXTENDS Messages, FiniteSetTheorems, WellFoundedInduction, TLAPS

-----------------------------------------------------------------------------
(* The largest of a set of ids, and the first of them *)

\* What is strictly within another set of the family comes before it.
LEMMA Ordered ==
    ASSUME NEW T, NEW A, NEW B, A \subseteq T, B \subseteq T, A \subseteq B,
           NEW y \in B, y \notin A
    PROVE  <<A, B>> \in StrictSubsetOrdering(T)
<1>1. A # B
  OBVIOUS
<1>. QED
  BY <1>1 DEF StrictSubsetOrdering

\* A finite set of numbers has a largest one: the sets of those above each element are
\* finite, and a smallest of these sets is empty.
LEMMA MaxIs ==
    ASSUME NEW T, T \subseteq Nat, IsFiniteSet(T), T # {}
    PROVE  Max(T) \in T /\ \A y \in T : Max(T) >= y
<1>. DEFINE above(x) == {y \in T : y > x}
            F == {above(x) : x \in T}
<1>1. F \subseteq FiniteSubsetsOf(T) /\ F # {}
  <2>1. ASSUME NEW x \in T PROVE above(x) \in FiniteSubsetsOf(T)
    <3>1. IsFiniteSet(above(x))
      BY FS_Subset
    <3>. QED
      BY <3>1 DEF FiniteSubsetsOf
  <2>. QED
    BY <2>1
<1>2. PICK U \in F : \A V \in F : <<V, U>> \notin StrictSubsetOrdering(T)
  <2>. HIDE DEF F
  <2>. QED
    BY <1>1, WFMin, FS_StrictSubsetOrderingWellFounded
<1>3. PICK x \in T : U = above(x)
  OBVIOUS
<1>4. \A y \in T : x >= y
  <2>1. SUFFICES ASSUME NEW y \in T, y > x PROVE FALSE
    OBVIOUS
  <2>2. above(y) \in F
    OBVIOUS
  <2>. HIDE DEF F
  <2>3. above(y) \subseteq T /\ above(x) \subseteq T
    OBVIOUS
  <2>4. y \in above(x)
    BY <2>1
  <2>5. y \notin above(y)
    BY <2>1
  <2>6. above(y) \subseteq above(x)
    <3>1. SUFFICES ASSUME NEW z \in above(y) PROVE z \in above(x)
      OBVIOUS
    <3>2. x \in Nat /\ y \in Nat /\ z \in Nat /\ z \in T /\ z > y
      BY <3>1
    <3>3. z > x
      BY <2>1, <3>2
    <3>. QED
      BY <3>2, <3>3
  <2>. DEFINE A == above(y)
              B == above(x)
  <2>. HIDE DEF above
  <2>7. A \subseteq T /\ B \subseteq T /\ A \subseteq B /\ y \in B /\ y \notin A
    BY <2>3, <2>4, <2>5, <2>6
  <2>8. A \in F /\ U = B
    BY <1>3, <2>2
  <2>. HIDE DEF A, B
  <2>9. <<A, B>> \in StrictSubsetOrdering(T)
    BY <2>7, Ordered
  <2>. QED
    BY <1>2, <2>8, <2>9
<1>. QED
  BY <1>4 DEF Max

\* The set is one of ids, or 0 besides them.
LEMMA MaxOfIds ==
    ASSUME NEW n \in Nat, NEW T, T \subseteq 0 .. n, T # {}
    PROVE  Max(T) \in T /\ Max(T) \in 0 .. n /\ \A y \in T : y <= Max(T)
<1>1. IsFiniteSet(T)
  BY FS_BoundedSetOfNaturals
<1>2. T \subseteq Nat
  OBVIOUS
<1>3. Max(T) \in T /\ \A y \in T : Max(T) >= y
  BY <1>1, <1>2, MaxIs
<1>. QED
  BY <1>3
\* A set of numbers that is not empty has a smallest one: ids above a bound have a largest.
LEMMA SmallestId ==
    ASSUME NEW n \in Nat, NEW T, T \subseteq 0 .. n, T # {}
    PROVE  \E x \in T : \A y \in T : x <= y
<1>. DEFINE f == [x \in 0 .. n |-> n - x]
            U == {f[x] : x \in T}
<1>1. U \subseteq 0 .. n /\ U # {}
  <2>1. \A x \in T : x \in 0 .. n /\ f[x] = n - x /\ n - x \in 0 .. n
    OBVIOUS
  <2>. HIDE DEF f
  <2>. QED
    BY <2>1
<1>. HIDE DEF U
<1>2. Max(U) \in U /\ \A y \in U : y <= Max(U)
  BY <1>1, MaxOfIds
<1>3. PICK x \in T : Max(U) = f[x]
  BY <1>2 DEF U
<1>4. ASSUME NEW y \in T PROVE x <= y
  <2>1. f[y] <= f[x]
    BY <1>2, <1>3 DEF U
  <2>2. x \in 0 .. n /\ y \in 0 .. n
    OBVIOUS
  <2>. QED
    BY <2>1, <2>2
<1>. QED
  BY <1>4

\* The ids of a set up to k.
UpTo(is, k) == {j \in is : j <= k}

\* The first n are those with at most n ids up to them.
LEMMA FirstByRank ==
    ASSUME NEW is, NEW n
    PROVE  First(is, n) \subseteq is
           /\ \A k \in is : k \in First(is, n) <=> Cardinality(UpTo(is, k)) <= n
  BY DEF First, UpTo

\* Ranks follow the order of the ids.
LEMMA UpToGrows ==
    ASSUME NEW m \in Nat, NEW is, is \subseteq 1 .. m, NEW j \in is, NEW k \in is, k <= j
    PROVE  UpTo(is, k) \subseteq UpTo(is, j)
<1>1. \A x \in is : x \in Nat
  OBVIOUS
<1>. SUFFICES ASSUME NEW x \in is, x <= k PROVE x <= j
  BY DEF UpTo
<1>2. x \in Nat /\ k \in Nat /\ j \in Nat
  BY <1>1
<1>. QED
  BY <1>2

\* A batch is full and below what it leaves out: the first n of a set of ids.
LEMMA FirstIs ==
    ASSUME NEW m \in Nat, NEW is, is \subseteq 1 .. m, NEW n \in Nat \ {0},
           NEW i \in is, i \notin First(is, n)
    PROVE  Cardinality(First(is, n)) = n /\ i > Max(First(is, n))
<1>. DEFINE F == First(is, n)
            upto(k) == UpTo(is, k)
<1>0. /\ F \subseteq is /\ is \subseteq 0 .. m /\ IsFiniteSet(is) /\ IsFiniteSet(F)
      /\ \A k : upto(k) \subseteq is /\ IsFiniteSet(upto(k))
  <2>1. is \subseteq Nat /\ \A k \in is : k <= m
    OBVIOUS
  <2>2. IsFiniteSet(is)
    BY <2>1, FS_BoundedSetOfNaturals
  <2>3. is \subseteq 0 .. m
    OBVIOUS
  <2>4. F \subseteq is /\ \A k : UpTo(is, k) \subseteq is
    BY FirstByRank DEF UpTo
  <2>. HIDE DEF F
  <2>. QED
    BY <2>2, <2>3, <2>4, FS_Subset
<1>1. \A k \in is : k \in F <=> Cardinality(upto(k)) <= n
  BY FirstByRank
<1>2. ASSUME NEW k, NEW S \in SUBSET is, S \subseteq upto(k)
      PROVE  IsFiniteSet(S) /\ Cardinality(S) <= Cardinality(upto(k))
             /\ Cardinality(S) \in Nat /\ Cardinality(upto(k)) \in Nat
  BY <1>0, <1>2, FS_Subset, FS_CardinalityType
<1>. HIDE DEF F, upto
\* Whatever is left out is above all that is in.
<1>3. ASSUME NEW j \in F, NEW k \in is \ F PROVE j < k
  <2>1. j \in Nat /\ k \in Nat /\ j \in is
    BY <1>0
  <2>2. SUFFICES ASSUME k <= j PROVE FALSE
    BY <2>1
  <2>3. upto(k) \subseteq upto(j)
    BY <1>0, <2>1, <2>2, UpToGrows DEF upto
  <2>4. Cardinality(upto(k)) <= Cardinality(upto(j)) /\ Cardinality(upto(k)) \in Nat
        /\ Cardinality(upto(j)) \in Nat
    BY <1>0, <1>2, <2>3
  <2>. QED
    BY <1>1, <2>1, <2>4
<1>4. PICK k \in is \ F : \A x \in is \ F : k <= x
  BY <1>0, SmallestId DEF F
<1>5. upto(k) = F \cup {k} /\ k \notin F /\ k \in Nat
  <2>1. \A x \in is : x \in Nat
    OBVIOUS
  <2>2. upto(k) \subseteq F \cup {k}
    <3>1. SUFFICES ASSUME NEW x \in is, x <= k, x \notin F PROVE x = k
      BY DEF upto, UpTo
    <3>2. x \in Nat /\ k \in Nat /\ k <= x
      BY <1>4, <2>1, <3>1
    <3>. QED
      BY <3>1, <3>2
  <2>3. F \subseteq upto(k)
    <3>1. SUFFICES ASSUME NEW x \in F PROVE x <= k
      BY <1>0 DEF upto, UpTo
    <3>2. x \in Nat /\ k \in Nat /\ x < k
      BY <1>0, <1>3, <2>1, <3>1
    <3>. QED
      BY <3>2
  <2>4. k \in upto(k)
    BY <2>1 DEF upto, UpTo
  <2>. QED
    BY <2>1, <2>2, <2>3, <2>4
<1>6. Cardinality(upto(k)) = Cardinality(F) + 1 /\ Cardinality(F) \in Nat
  BY <1>0, <1>5, FS_AddElement, FS_CardinalityType
<1>7. Cardinality(F) >= n
  <2>1. ~(Cardinality(upto(k)) <= n)
    BY <1>1
  <2>. QED
    BY <1>6, <2>1
<1>8. F # {}
  BY <1>7, FS_EmptySet
<1>9. Max(F) \in F /\ \A y \in F : y <= Max(F)
  BY <1>0, <1>8, MaxOfIds
<1>10. F \subseteq upto(Max(F))
  BY <1>0, <1>9 DEF upto, UpTo
<1>11. Cardinality(F) <= n
  <2>1. Cardinality(F) <= Cardinality(upto(Max(F))) /\ Cardinality(upto(Max(F))) \in Nat
    BY <1>0, <1>2, <1>10
  <2>2. Cardinality(upto(Max(F))) <= n
    BY <1>0, <1>1, <1>9
  <2>. QED
    BY <1>6, <2>1, <2>2
<1>12. i > Max(F)
  BY <1>0, <1>3, <1>9 DEF F
<1>. QED
  BY <1>6, <1>7, <1>11, <1>12 DEF F
-----------------------------------------------------------------------------
(* Types, and what each handler's place says of its slot *)

\* s is a slot that its handler can have left so, with R for rows and C for conn: a
\* handler knows its frame, and past the first statement the message it is about.
Fits(s, R, C) ==
    /\ s.op = "idle" <=> s.pc = "idle"
    /\ s.op # "idle" => s.dev \in Devices /\ s.at \in Instances /\ (s.live => C[s.dev] = "up")
    /\ s.op = "chat" =>
           /\ s.pc \in {"lookup", "insert", "link", "push"}
           /\ s.peer \in Users /\ s.text \in Texts
           /\ s.pc \in {"lookup", "insert"} => s.id = 0
           /\ s.pc \in {"link", "push"} => s.id \in DOMAIN R /\ R[s.id].from = Owner[s.dev]
           /\ s.pc = "link" => s.att \in Atts
    /\ s.op \in {"react", "edit", "delete"} =>
           /\ s.pc \in {"select", "write", "push"}
           /\ s.pc # "select" => s.id \in DOMAIN R
           /\ s.op = "edit" => s.text \in Texts
    /\ s.op \in {"read", "resume", "history"} =>
           s.pc \in {"select", "write", "push"} /\ s.peer \in Users
    /\ s.op = "resume" => s.pc # "write" /\ (s.pc = "select" => s.page = <<>>)

RowsType == rows \in Seq(Message) /\ Len(rows) \in 0 .. MaxRows
ReactsType == reacts \subseteq (DOMAIN rows) \X Users
AttsType == atts \in [Atts -> [owner : Users \cup {None}, msg : 0 .. Len(rows)]]
ClientType ==
    /\ conn \in [Devices -> {"up", "down"}]
    /\ at \in [Devices -> Instances]
    /\ bus \in [Instances -> [Instances -> Seq(Frame)]]
    /\ view \in [Devices -> [Ids -> Texts \cup {Blank, Unseen}]]
    /\ receipt \in [Devices -> [Users -> 0 .. MaxRows]]
HistoryType ==
    /\ excused \in [Devices -> SUBSET Ids]
    /\ orphan \subseteq Ids /\ raced \subseteq Ids
    /\ unwritten \in BOOLEAN
ReqInv ==
    /\ req \in [Requests -> Slot]
    /\ \A r \in Requests : Fits(req[r], rows, conn)

Base == RowsType /\ ReactsType /\ AttsType /\ ClientType /\ HistoryType /\ ReqInv

\* The base invariant implies the types.
LEMMA BaseTypes == Base => TypeOK
  BY DEF Base, TypeOK, RowsType, ReactsType, AttsType, ClientType, HistoryType, ReqInv

-----------------------------------------------------------------------------
(* What happens to stored messages *)

\* Messages are added and changed, never removed; their parties and nonces stay.
RowsGrow ==
    /\ RowsType'
    /\ Len(rows) <= Len(rows')
    /\ \A i \in 1 .. Len(rows) :
           rows'[i].from = rows[i].from /\ rows'[i].to = rows[i].to
           /\ rows'[i].nonce = rows[i].nonce
           /\ (rows[i].read => rows'[i].read) /\ (rows[i].deleted => rows'[i].deleted)

\* Messages that are left alone grow by nothing.
LEMMA RowsStay ==
    ASSUME RowsType, UNCHANGED rows PROVE RowsGrow
  BY DEF RowsType, RowsGrow

\* A slot that nobody touches still fits while messages grow and its device is up.
LEMMA FitsStays ==
    ASSUME RowsType, RowsGrow, NEW s \in Slot, Fits(s, rows, conn),
           s.op # "idle" /\ s.live => conn'[s.dev] = "up"
    PROVE  Fits(s, rows', conn')
<1>1. DOMAIN rows = 1 .. Len(rows) /\ DOMAIN rows' = 1 .. Len(rows') /\ Len(rows) \in Nat
      /\ Len(rows') \in Nat
  BY DEF RowsType, RowsGrow
<1>2. s.id \in DOMAIN rows => s.id \in DOMAIN rows' /\ rows'[s.id].from = rows[s.id].from
  BY <1>1 DEF RowsGrow
<1>. QED
  BY <1>2 DEF Fits

\* Slot r moves to s.
LEMMA SlotMoves ==
    ASSUME RowsType, ReqInv, RowsGrow, NEW r \in Requests, NEW s \in Slot,
           Fits(s, rows', conn'), req' = [req EXCEPT ![r] = s], UNCHANGED conn
    PROVE  ReqInv'
<1>1. req' \in [Requests -> Slot]
  BY DEF ReqInv
<1>2. ASSUME NEW q \in Requests PROVE Fits(req'[q], rows', conn')
  <2>1. CASE q = r
    BY <2>1 DEF ReqInv
  <2>2. CASE q # r
    <3>1. req'[q] = req[q] /\ req[q] \in Slot /\ Fits(req[q], rows, conn)
      BY <2>2 DEF ReqInv
    <3>2. Fits(req[q], rows', conn')
      BY <3>1, FitsStays DEF Fits
    <3>. QED
      BY <3>1, <3>2
  <2>. QED
    BY <2>1, <2>2
<1>. QED
  BY <1>1, <1>2 DEF ReqInv

\* No slot moves.
LEMMA SlotsStay ==
    ASSUME RowsType, ReqInv, RowsGrow, UNCHANGED <<req, conn>>
    PROVE  ReqInv'
<1>1. ASSUME NEW q \in Requests PROVE Fits(req'[q], rows', conn')
  BY FitsStays DEF ReqInv, Fits
<1>. QED
  BY <1>1 DEF ReqInv

\* An empty slot is one.
LEMMA IdleFits ==
    ASSUME NEW R, NEW C PROVE Idle \in Slot /\ Fits(Idle, R, C)
<1>1. <<>> \in Pages
  <2>1. <<>> \in [{} -> Texts \cup {Blank}]
    OBVIOUS
  <2>. QED
    BY <2>1 DEF Pages
<1>2. 0 \in 0 .. MaxRows
  BY MessagesConstants DEF MessagesConstants
<1>3. Idle \in Slot
  BY <1>1, <1>2 DEF Idle, Slot
<1>. QED
  BY <1>3 DEF Idle, Fits

\* A handler ends.
LEMMA Finishes ==
    ASSUME RowsType, ReqInv, RowsGrow, NEW r \in Requests, Finish(r), UNCHANGED conn
    PROVE  ReqInv'
  BY IdleFits, SlotMoves DEF Finish

\* A handler goes on to its next statement.
LEMMA GoesOn ==
    ASSUME RowsType, ReqInv, RowsGrow, NEW r \in Requests, NEW pc,
           \/ /\ req[r].op = "chat"
              /\ \/ req[r].pc = "lookup" /\ pc = "insert"
                 \/ req[r].pc = "link" /\ pc = "push"
           \/ req[r].op \in {"react", "edit", "delete", "read", "history"}
              /\ pc \in {"write", "push"}
              /\ (req[r].op \in {"react", "edit", "delete"} => req[r].id \in DOMAIN rows)
              /\ req[r].op # "resume",
           Goto(r, pc), UNCHANGED conn
    PROVE  ReqInv'
<1>. DEFINE s == [req[r] EXCEPT !.pc = pc]
<1>1. req[r] \in Slot /\ Fits(req[r], rows, conn)
  BY DEF ReqInv
<1>2. Fits(req[r], rows', conn')
  BY <1>1, FitsStays DEF Fits
<1>3. s \in Slot /\ s.pc = pc /\ s.op = req[r].op /\ s.dev = req[r].dev /\ s.live = req[r].live
      /\ s.peer = req[r].peer /\ s.id = req[r].id /\ s.text = req[r].text /\ s.att = req[r].att
      /\ s.at = req[r].at
  BY <1>1 DEF Slot
<1>4. req[r].id \in DOMAIN rows => req[r].id \in DOMAIN rows'
  BY DEF RowsGrow, RowsType
<1>. HIDE DEF s
<1>5. Fits(s, rows', conn')
  BY <1>2, <1>3, <1>4 DEF Fits
<1>6. req' = [req EXCEPT ![r] = s]
  BY DEF Goto, s
<1>. QED
  BY <1>3, <1>5, <1>6, SlotMoves

\* A message is added at the end.
LEMMA InsertGrows ==
    ASSUME RowsType, ReqInv, NEW r \in Requests, Insert(r), req[r].op = "chat"
    PROVE  RowsGrow /\ Len(rows') = Len(rows) + 1
           /\ rows'[Len(rows) + 1].from = me(r) /\ rows'[Len(rows) + 1].to = req[r].peer
           /\ rows'[Len(rows) + 1].nonce = req[r].nonce
           /\ ~rows'[Len(rows) + 1].deleted /\ ~rows'[Len(rows) + 1].read
           /\ \A i \in 1 .. Len(rows) : rows'[i] = rows[i]
<1>. DEFINE m == [from |-> me(r), to |-> req[r].peer, body |-> req[r].text,
                  nonce |-> req[r].nonce, deleted |-> FALSE, read |-> FALSE]
<1>1. m \in Message
  BY MessagesConstants DEF ReqInv, Slot, Fits, Message, me, MessagesConstants
<1>2. m.from = me(r) /\ m.to = req[r].peer /\ m.nonce = req[r].nonce /\ ~m.deleted /\ ~m.read
  OBVIOUS
<1>3. rows' = Append(rows, m) /\ Len(rows) < MaxRows
  BY DEF Insert
<1>. HIDE DEF m
<1>4. /\ rows' \in Seq(Message) /\ Len(rows') = Len(rows) + 1
      /\ rows'[Len(rows) + 1] = m /\ \A i \in 1 .. Len(rows) : rows'[i] = rows[i]
  BY <1>1, <1>3 DEF RowsType
<1>5. Len(rows) \in 0 .. MaxRows /\ MaxRows \in Nat
  BY MessagesConstants DEF RowsType, MessagesConstants
<1>. QED
  BY <1>2, <1>3, <1>4, <1>5 DEF RowsGrow, RowsType

\* One message is changed, and its parties and nonce stay.
LEMMA ChangeGrows ==
    ASSUME RowsType, NEW i \in DOMAIN rows, NEW m \in Message, rows' = [rows EXCEPT ![i] = m],
           m.from = rows[i].from, m.to = rows[i].to, m.nonce = rows[i].nonce,
           rows[i].read => m.read, rows[i].deleted => m.deleted
    PROVE  RowsGrow /\ Len(rows') = Len(rows) /\ rows'[i] = m
           /\ \A j \in (DOMAIN rows) \ {i} : rows'[j] = rows[j]
<1>1. i \in 1 .. Len(rows)
  BY DEF RowsType
<1>2. /\ rows' \in Seq(Message) /\ Len(rows') = Len(rows) /\ rows'[i] = m
      /\ \A j \in 1 .. Len(rows) : j # i => rows'[j] = rows[j]
  BY <1>1 DEF RowsType
<1>. QED
  BY <1>1, <1>2 DEF RowsGrow, RowsType

\* What edits and deletions write.
LEMMA WriteGrows ==
    ASSUME RowsType, ReqInv, NEW r \in Requests, Write(r)
    PROVE  /\ RowsGrow /\ Len(rows') = Len(rows)
           /\ \A j \in (DOMAIN rows) \ {req[r].id} : rows'[j] = rows[j]
           /\ req[r].id \in DOMAIN rows
           /\ req[r].op = "edit" => rows'[req[r].id].deleted = rows[req[r].id].deleted
           /\ req[r].op = "delete" => rows'[req[r].id].body = Blank
           /\ req[r].op = "react" => rows' = rows
<1>. DEFINE i == req[r].id
<1>1. i \in DOMAIN rows /\ rows[i] \in Message /\ req[r].op \in {"react", "edit", "delete"}
  BY DEF ReqInv, Fits, RowsType, Write
<1>2. CASE req[r].op = "react"
  BY <1>1, <1>2, RowsStay DEF Write, RowsType
<1>3. CASE req[r].op = "edit"
  <2>. DEFINE m == [rows[i] EXCEPT !.body = req[r].text]
  <2>1. req[r].text \in Texts
    BY <1>3 DEF ReqInv, Fits
  <2>2. m \in Message /\ m.from = rows[i].from /\ m.to = rows[i].to /\ m.read = rows[i].read
        /\ m.deleted = rows[i].deleted /\ m.nonce = rows[i].nonce
    BY <1>1, <2>1 DEF Message
  <2>3. rows' = [rows EXCEPT ![i] = m]
    BY <1>3 DEF Write
  <2>. HIDE DEF m
  <2>. QED
    BY <1>1, <1>3, <2>2, <2>3, ChangeGrows
<1>4. CASE req[r].op = "delete"
  <2>. DEFINE m == [rows[i] EXCEPT !.body = Blank, !.deleted = TRUE]
  <2>1. m \in Message /\ m.from = rows[i].from /\ m.to = rows[i].to /\ m.read = rows[i].read
        /\ m.deleted /\ m.body = Blank /\ m.nonce = rows[i].nonce
    BY <1>1 DEF Message
  <2>2. rows' = [rows EXCEPT ![i] = m]
    BY <1>1, <1>4 DEF Write, RowsType
  <2>. HIDE DEF m
  <2>. QED
    BY <1>1, <1>4, <2>1, <2>2, ChangeGrows
<1>. QED
  BY <1>1, <1>2, <1>3, <1>4

\* What is inbound is marked read.
LEMMA MarkGrows ==
    ASSUME RowsType, NEW r \in Requests, MarkRead(r)
    PROVE  /\ RowsGrow /\ Len(rows') = Len(rows)
           /\ \A i \in DOMAIN rows : /\ i \in Inbound(me(r), req[r].peer) => rows'[i].read
                                     /\ rows'[i].deleted = rows[i].deleted
                                     /\ rows'[i].body = rows[i].body
<1>1. \A i \in DOMAIN rows : rows[i] \in Message
  BY DEF RowsType
<1>. DEFINE f(i) == IF i \in Inbound(me(r), req[r].peer) THEN [rows[i] EXCEPT !.read = TRUE]
                    ELSE rows[i]
<1>2. \A i \in DOMAIN rows :
          /\ f(i) \in Message /\ f(i).from = rows[i].from /\ f(i).to = rows[i].to
          /\ f(i).nonce = rows[i].nonce
          /\ f(i).deleted = rows[i].deleted /\ f(i).body = rows[i].body
          /\ (i \in Inbound(me(r), req[r].peer) => f(i).read) /\ (rows[i].read => f(i).read)
  BY <1>1 DEF Message
<1>3. rows' = [i \in DOMAIN rows |-> f(i)]
  BY DEF MarkRead
<1>. HIDE DEF f
<1>4. DOMAIN rows = 1 .. Len(rows) /\ Len(rows) \in Nat
  BY DEF RowsType
<1>5. rows' \in Seq(Message) /\ Len(rows') = Len(rows)
      /\ \A i \in DOMAIN rows : rows'[i] = f(i)
  BY <1>2, <1>3, <1>4
<1>. QED
  BY <1>2, <1>4, <1>5 DEF RowsGrow, RowsType

-----------------------------------------------------------------------------
(* What happens to what devices show and to the frames between instances *)

\* A receipt is as it was, or is raised by the one a handler pushes or a frame carries.
Told ==
    \A d \in Devices, u \in Users :
        \/ receipt'[d][u] = receipt[d][u]
        \/ \E r \in Requests : /\ PushReceipt(r) /\ u = me(r) /\ Owner[d] = req[r].peer
                               /\ receipt'[d][u] = req[r].id
        \/ \E i, j \in Instances : \E f \in Range(bus[i][j]) :
               u = f.by /\ Owner[d] \in f.to /\ receipt'[d][u] = f.upTo

\* A frame on the bus was there, or shows messages, or is the receipt that is pushed.
Sent ==
    \A i, j \in Instances : \A f \in Range(bus'[i][j]) :
        \/ f \in Range(bus[i][j])
        \/ f.by = None
        \/ \E r \in Requests : PushReceipt(r) /\ f = Receipt(req[r].peer, me(r), req[r].id)

\* A frame on the bus stays there until it is relayed.
Taken ==
    \A i, j \in Instances : \A f \in Range(bus[i][j]) :
        \/ f \in Range(bus'[i][j])
        \/ \E lost \in SUBSET Users : Relay(i, j, lost) /\ f = Head(bus[i][j])

\* Nothing that is shown is taken away.
ClientsGo ==
    /\ ClientType'
    /\ \A d \in Devices, i \in Ids : view[d][i] # Unseen => view'[d][i] # Unseen
    /\ Told /\ Sent /\ Taken

\* Devices that are shown nothing lose nothing.
LEMMA ClientsStay ==
    ASSUME ClientType, UNCHANGED clients PROVE ClientsGo
  BY DEF ClientsGo, ClientType, Told, Sent, Taken, clients

\* A page is bodies of messages.
LEMMA PageIs ==
    ASSUME NEW p \in Pages
    PROVE  DOMAIN p \subseteq Ids /\ \A i \in DOMAIN p : p[i] \in Texts \cup {Blank}
<1>1. PICK S \in SUBSET Ids : p \in [S -> Texts \cup {Blank}]
  BY DEF Pages
<1>. QED
  BY <1>1

\* The text of one message is a page, ...
LEMMA OneIsPage ==
    ASSUME NEW n \in Ids, NEW t \in Texts \cup {Blank}
    PROVE  [i \in {n} |-> t] \in Pages
<1>1. [i \in {n} |-> t] \in [{n} -> Texts \cup {Blank}] /\ {n} \in SUBSET Ids
  OBVIOUS
<1>. QED
  BY <1>1 DEF Pages

\* ... and so is nothing.
LEMMA NonePage == <<>> \in Pages
<1>1. <<>> \in [{} -> Texts \cup {Blank}]
  OBVIOUS
<1>. QED
  BY <1>1 DEF Pages

\* Frames are frames.
LEMMA FramesAre ==
    /\ \A us \in SUBSET Users, texts \in Pages :
           /\ News(us, texts) \in Frame /\ News(us, texts).to = us /\ News(us, texts).by = None
           /\ News(us, texts).texts = texts /\ ~News(us, texts).update
           /\ Update(us, texts) \in Frame /\ Update(us, texts).by = None
    /\ \A u, v \in Users, n \in 0 .. MaxRows :
           /\ Receipt(u, v, n) \in Frame /\ Receipt(u, v, n).to = {u} /\ Receipt(u, v, n).by = v
           /\ Receipt(u, v, n).upTo = n
<1>1. 0 \in 0 .. MaxRows
  BY MessagesConstants DEF MessagesConstants
<1>2. ASSUME NEW us \in SUBSET Users, NEW texts \in Pages
      PROVE  /\ News(us, texts) \in Frame /\ News(us, texts).to = us /\ News(us, texts).by = None
             /\ News(us, texts).texts = texts /\ ~News(us, texts).update
             /\ Update(us, texts) \in Frame /\ Update(us, texts).by = None
  BY <1>1 DEF News, Update, Frame
<1>3. ASSUME NEW u \in Users, NEW v \in Users, NEW n \in 0 .. MaxRows
      PROVE  /\ Receipt(u, v, n) \in Frame /\ Receipt(u, v, n).to = {u} /\ Receipt(u, v, n).by = v
             /\ Receipt(u, v, n).upTo = n
  BY <1>1, NonePage DEF News, Receipt, Frame
<1>. QED
  BY <1>2, <1>3

\* A frame shows its texts on the connected devices of its users on the instance, and
\* raises what they were told of its reader.
LEMMA Delivers ==
    ASSUME ClientType, NEW j, NEW us, NEW f \in Frame, deliver_local(j, us, f)
    PROVE  /\ view' \in [Devices -> [Ids -> Texts \cup {Blank, Unseen}]]
           /\ receipt' \in [Devices -> [Users -> 0 .. MaxRows]]
           /\ \A d \in Devices, i \in Ids : view[d][i] # Unseen => view'[d][i] # Unseen
           /\ ~f.update => \A d \in Devices, i \in DOMAIN f.texts :
                  Up(d) /\ at[d] = j /\ Owner[d] \in us => i \in Ids /\ view'[d][i] # Unseen
           /\ \A d \in Devices, u \in Users :
                  \/ receipt'[d][u] = receipt[d][u]
                  \/ u = f.by /\ Owner[d] \in us /\ receipt'[d][u] = f.upTo
<1>. DEFINE gets(d) == Up(d) /\ at[d] = j /\ Owner[d] \in us
<1>0. /\ Unseen \notin Texts \cup {Blank} /\ MaxRows \in Nat
      /\ f.texts \in Pages /\ f.upTo \in 0 .. MaxRows
  BY MessagesConstants DEF MessagesConstants, Unseen, Blank, Frame
<1>1. DOMAIN f.texts \subseteq Ids /\ \A i \in DOMAIN f.texts : f.texts[i] \in Texts \cup {Blank}
  BY <1>0, PageIs
<1>2. ASSUME NEW d \in Devices
      PROVE  /\ view'[d] \in [Ids -> Texts \cup {Blank, Unseen}]
             /\ \A i \in Ids : view[d][i] # Unseen => view'[d][i] # Unseen
             /\ gets(d) /\ ~f.update => \A i \in DOMAIN f.texts : view'[d][i] # Unseen
  <2>1. view[d] \in [Ids -> Texts \cup {Blank, Unseen}]
    BY DEF ClientType
  <2>2. view'[d] = [i \in Ids |-> IF /\ gets(d) /\ i \in DOMAIN f.texts
                                     /\ ~(f.update /\ view[d][i] = Unseen)
                                  THEN f.texts[i] ELSE view[d][i]]
    BY DEF deliver_local
  <2>. HIDE DEF gets
  <2>3. view'[d] \in [Ids -> Texts \cup {Blank, Unseen}]
    BY <1>1, <2>1, <2>2
  <2>. QED
    BY <1>0, <1>1, <2>2, <2>3
<1>3. ASSUME NEW d \in Devices
      PROVE  /\ receipt'[d] \in [Users -> 0 .. MaxRows]
             /\ \A u \in Users : \/ receipt'[d][u] = receipt[d][u]
                                 \/ u = f.by /\ gets(d) /\ receipt'[d][u] = f.upTo
  <2>1. receipt[d] \in [Users -> 0 .. MaxRows]
    BY DEF ClientType
  <2>2. receipt'[d] = [u \in Users |-> IF gets(d) /\ u = f.by THEN Max({receipt[d][u], f.upTo})
                                       ELSE receipt[d][u]]
    BY DEF deliver_local
  <2>3. ASSUME NEW u \in Users
        PROVE  LET n == Max({receipt[d][u], f.upTo}) IN
               n \in 0 .. MaxRows /\ (n = receipt[d][u] \/ n = f.upTo)
    <3>. DEFINE T == {receipt[d][u], f.upTo}
    <3>1. T \subseteq 0 .. MaxRows /\ T # {}
      BY <1>0, <2>1
    <3>. HIDE DEF T
    <3>2. Max(T) \in T /\ Max(T) \in 0 .. MaxRows
      BY <1>0, <3>1, MaxOfIds
    <3>. QED
      BY <3>2 DEF T
  <2>. HIDE DEF gets
  <2>. QED
    BY <2>1, <2>2, <2>3
<1>4. view' = [d \in Devices |-> view'[d]] /\ receipt' = [d \in Devices |-> receipt'[d]]
  BY DEF deliver_local
<1>. QED
  BY <1>1, <1>2, <1>3, <1>4

\* The frames of a queue, as one is added at its end, ...
LEMMA Appends ==
    ASSUME NEW q \in Seq(Frame), NEW f \in Frame
    PROVE  Append(q, f) \in Seq(Frame) /\ Range(Append(q, f)) = Range(q) \cup {f}
<1>1. /\ Append(q, f) \in Seq(Frame) /\ DOMAIN Append(q, f) = DOMAIN q \cup {Len(q) + 1}
      /\ Append(q, f)[Len(q) + 1] = f /\ \A k \in DOMAIN q : Append(q, f)[k] = q[k]
  OBVIOUS
<1>. QED
  BY <1>1 DEF Range

\* ... and as the first one is taken.
LEMMA Takes ==
    ASSUME NEW q \in Seq(Frame), q # <<>>
    PROVE  /\ Tail(q) \in Seq(Frame) /\ Head(q) \in Range(q) /\ Head(q) \in Frame
           /\ Range(Tail(q)) \subseteq Range(q)
           /\ \A f \in Range(q) : f = Head(q) \/ f \in Range(Tail(q))
<1>1. /\ Tail(q) \in Seq(Frame) /\ 1 \in DOMAIN q /\ Head(q) = q[1] /\ q[1] \in Frame
      /\ \A k \in DOMAIN Tail(q) : k + 1 \in DOMAIN q /\ Tail(q)[k] = q[k + 1]
      /\ \A k \in DOMAIN q : k = 1 \/ (k - 1 \in DOMAIN Tail(q) /\ Tail(q)[k - 1] = q[k])
  OBVIOUS
<1>2. \A f \in Range(Tail(q)) : f \in Range(q)
  BY <1>1 DEF Range
<1>3. ASSUME NEW f \in Range(q) PROVE f = Head(q) \/ f \in Range(Tail(q))
  <2>1. PICK k \in DOMAIN q : f = q[k]
    BY DEF Range
  <2>2. CASE k = 1
    BY <1>1, <2>1, <2>2
  <2>3. CASE k # 1
    <3>1. k - 1 \in DOMAIN Tail(q) /\ Tail(q)[k - 1] = f
      BY <1>1, <2>1, <2>3
    <3>. QED
      BY <3>1 DEF Range
  <2>. QED
    BY <2>2, <2>3
<1>4. Head(q) \in Range(q)
  BY <1>1 DEF Range
<1>. QED
  BY <1>1, <1>2, <1>3, <1>4

\* A frame that is pushed shows its texts on every connected device of its users here, and
\* is on its way to all the others.
LEMMA Pushes ==
    ASSUME ClientType, NEW r \in Requests, NEW f \in Frame, req[r].at \in Instances,
           Push(r, f), UNCHANGED <<conn, at>>,
           \/ f.by = None
           \/ PushReceipt(r) /\ f = Receipt(req[r].peer, me(r), req[r].id) /\ f.to = {req[r].peer}
              /\ f.by = me(r) /\ f.upTo = req[r].id
    PROVE  /\ ClientsGo
           /\ ~f.update => \A d \in Devices, n \in DOMAIN f.texts :
                  Up(d) /\ Owner[d] \in f.to =>
                      n \in Ids /\ (view'[d][n] # Unseen \/ n \in Queued(d)')
<1>. DEFINE here == req[r].at
<1>0. f.texts \in Pages /\ None \notin Users
  BY MessagesConstants DEF Frame, MessagesConstants
<1>1. DOMAIN f.texts \subseteq Ids
  BY <1>0, PageIs
<1>2. deliver_local(here, f.to, f)
  BY DEF Push
<1>3. ASSUME NEW i \in Instances, NEW j \in Instances
      PROVE  /\ bus'[i][j] \in Seq(Frame) /\ bus[i][j] \in Seq(Frame)
             /\ bus'[i] \in [Instances -> Seq(Frame)]
             /\ Range(bus[i][j]) \subseteq Range(bus'[i][j])
             /\ Range(bus'[i][j]) \subseteq Range(bus[i][j]) \cup {f}
             /\ i = here /\ j # here => f \in Range(bus'[i][j])
  <2>1. bus \in [Instances -> [Instances -> Seq(Frame)]]
    BY DEF ClientType
  <2>. DEFINE out == [k \in Instances |-> IF k = here THEN bus[here][k] ELSE Append(bus[here][k], f)]
  <2>2. bus' = [bus EXCEPT ![here] = out]
    BY <2>1 DEF Push
  <2>3. \A k \in Instances : bus[here][k] \in Seq(Frame) /\ Append(bus[here][k], f) \in Seq(Frame)
                             /\ Range(Append(bus[here][k], f)) = Range(bus[here][k]) \cup {f}
    <3>1. ASSUME NEW k \in Instances
          PROVE  /\ bus[here][k] \in Seq(Frame) /\ Append(bus[here][k], f) \in Seq(Frame)
                 /\ Range(Append(bus[here][k], f)) = Range(bus[here][k]) \cup {f}
      <4>. DEFINE q == bus[here][k]
      <4>1. q \in Seq(Frame)
        BY <2>1
      <4>. HIDE DEF q
      <4>2. Append(q, f) \in Seq(Frame) /\ Range(Append(q, f)) = Range(q) \cup {f}
        BY <4>1, Appends
      <4>. QED
        BY <4>1, <4>2 DEF q
    <3>. QED
      BY <3>1
  <2>4. /\ out \in [Instances -> Seq(Frame)]
        /\ \A k \in Instances : /\ Range(bus[here][k]) \subseteq Range(out[k])
                                /\ Range(out[k]) \subseteq Range(bus[here][k]) \cup {f}
                                /\ k # here => f \in Range(out[k])
    BY <2>3
  <2>. HIDE DEF out
  <2>5. CASE i = here
    BY <2>1, <2>2, <2>4, <2>5
  <2>6. CASE i # here
    <3>1. bus'[i] = bus[i]
      BY <2>2, <2>6
    <3>. QED
      BY <2>1, <2>6, <3>1
  <2>. QED
    BY <2>5, <2>6
<1>4. ClientType'
  <2>1. bus' = [i \in Instances |-> bus'[i]]
    BY DEF Push, ClientType
  <2>2. bus' \in [Instances -> [Instances -> Seq(Frame)]]
    BY <1>3, <2>1
  <2>. QED
    BY <1>2, <2>2, Delivers DEF ClientType
<1>5. Told
  BY <1>0, <1>2, Delivers DEF Told
<1>6. Sent /\ Taken
  BY <1>3 DEF Sent, Taken
<1>7. ASSUME ~f.update, NEW d \in Devices, NEW n \in DOMAIN f.texts, Up(d), Owner[d] \in f.to
      PROVE  n \in Ids /\ (view'[d][n] # Unseen \/ n \in Queued(d)')
  <2>0. at[d] \in Instances
    BY DEF ClientType
  <2>1. CASE at[d] = here
    BY <1>1, <1>2, <1>7, <2>1, Delivers
  <2>2. CASE at[d] # here
    <3>1. f \in Range(bus'[here][at'[d]])
      BY <1>3, <2>0, <2>2
    <3>. QED
      BY <1>1, <1>7, <3>1 DEF Queued
  <2>. QED
    BY <2>1, <2>2
<1>. QED
  BY <1>2, <1>4, <1>5, <1>6, <1>7, Delivers DEF ClientsGo

-----------------------------------------------------------------------------
(* The steps keep the types, the stored messages and what is shown *)

Step == Base' /\ RowsGrow /\ ClientsGo

\* What refers to stored messages still does as they grow.
LEMMA RestStays ==
    ASSUME Base, RowsGrow, UNCHANGED <<reacts, atts>>
    PROVE  ReactsType' /\ AttsType'
<1>1. Len(rows) \in Nat /\ Len(rows') \in Nat /\ Len(rows) <= Len(rows')
      /\ DOMAIN rows = 1 .. Len(rows) /\ DOMAIN rows' = 1 .. Len(rows')
  BY DEF RowsGrow, RowsType, Base
<1>2. ReactsType'
  BY <1>1 DEF Base, ReactsType
<1>3. ASSUME NEW a \in Atts PROVE atts'[a] \in [owner : Users \cup {None}, msg : 0 .. Len(rows')]
  BY <1>1 DEF Base, AttsType
<1>. QED
  BY <1>2, <1>3 DEF Base, AttsType

\* A step that leaves the tables, the clients and the history alone.
LEMMA QuietStep ==
    ASSUME Base, UNCHANGED <<tables, clients, history>>, ReqInv' PROVE Step
<1>1. RowsGrow
  BY RowsStay DEF Base, tables
<1>2. ClientsGo
  BY ClientsStay DEF Base, clients
<1>. QED
  BY <1>1, <1>2, RestStays DEF Base, Step, tables, clients, history, RowsGrow, ClientsGo,
                               HistoryType

\* The highest id a device has is one, or 0.
LEMMA CursorIs ==
    ASSUME NEW d PROVE Cursor(d) \in 0 .. MaxRows
<1>. DEFINE T == {0} \cup {i \in Ids : view[d][i] # Unseen}
<1>1. MaxRows \in Nat
  BY MessagesConstants DEF MessagesConstants
<1>2. T \subseteq 0 .. MaxRows /\ T # {}
  BY <1>1 DEF Ids
<1>. HIDE DEF T
<1>3. Max(T) \in 0 .. MaxRows
  BY <1>1, <1>2, MaxOfIds
<1>. QED
  BY <1>3 DEF T, Cursor

\* A handler's place tells what it handles.
LEMMA InFlight ==
    ASSUME ReqInv, NEW r \in Requests
    PROVE  /\ req[r] \in Slot /\ Fits(req[r], rows, conn) /\ req[r].op \in Ops \cup {"idle"}
           /\ req[r].pc \in {"lookup", "insert", "link"} => req[r].op = "chat"
<1>1. req[r] \in Slot /\ Fits(req[r], rows, conn)
  BY DEF ReqInv
<1>2. req[r].op \in Ops \cup {"idle"}
  BY <1>1 DEF Slot
<1>. QED
  BY <1>1, <1>2 DEF Fits, Ops

\* A frame arrives.
LEMMA Arrives ==
    ASSUME Base, NEW r \in Requests, NEW d \in Devices, NEW s \in Slot, Arrive(r, d, s),
           s.op # "idle", Fits([s EXCEPT !.dev = d, !.at = at[d], !.live = TRUE], rows, conn)
    PROVE  Step
<1>1. [s EXCEPT !.dev = d, !.at = at[d], !.live = TRUE] \in Slot
  BY DEF Slot, Base, ClientType
<1>2. RowsGrow
  BY RowsStay DEF Base, Arrive, tables
<1>3. ReqInv'
  BY <1>1, <1>2, SlotMoves DEF Base, Arrive, tables, clients
<1>. QED
  BY <1>3, QuietStep DEF Arrive

\* A chat frame arrives.
LEMMA ChatStep ==
    ASSUME Base, NEW r \in Requests, NEW d \in Devices, NEW to \in Users, NEW t \in Texts,
           NEW n \in Nonces \cup {None}, NEW a \in Atts \cup {None}, Chat(r, d, to, t, n, a)
    PROVE  Step
<1>. DEFINE pc == IF n = None THEN "insert" ELSE "lookup"
            s == [Idle EXCEPT !.op = "chat", !.pc = pc, !.peer = to, !.text = t, !.nonce = n,
                              !.att = a]
            u == [s EXCEPT !.dev = d, !.at = at[d], !.live = TRUE]
<1>1. Idle \in Slot
  BY IdleFits
<1>2. /\ s \in Slot /\ s.op = "chat"
      /\ u.op = "chat" /\ u.pc \in {"lookup", "insert"} /\ u.dev = d /\ u.at = at[d] /\ u.live
      /\ u.peer = to /\ u.text = t /\ u.id = 0
  BY ZenonT(40), <1>1 DEF Slot, Idle, Ops
<1>3. Arrive(r, d, s) /\ Up(d) /\ at[d] \in Instances
  BY DEF Chat, Arrive, Ready, Base, ClientType
<1>. HIDE DEF s
<1>4. Fits(u, rows, conn)
  BY <1>2, <1>3 DEF Fits, Up
<1>. QED
  BY <1>2, <1>3, <1>4, Arrives

\* An edit, a deletion or a reaction arrives.
LEMMA ModifyStep ==
    ASSUME Base, NEW r \in Requests, NEW d \in Devices, NEW op \in {"edit", "delete", "react"},
           NEW i \in Ids, NEW t \in Texts \cup {None}, op = "edit" => t \in Texts,
           NEW on \in BOOLEAN, Modify(r, d, op, i, t, on)
    PROVE  Step
<1>. DEFINE s == [Idle EXCEPT !.op = op, !.pc = "select", !.id = i, !.text = t, !.on = on]
            u == [s EXCEPT !.dev = d, !.at = at[d], !.live = TRUE]
<1>1. Idle \in Slot /\ Ids \subseteq 0 .. MaxRows
  BY IdleFits, MessagesConstants DEF Ids, MessagesConstants
<1>2. /\ s \in Slot /\ s.op = op
      /\ u.op = op /\ u.pc = "select" /\ u.dev = d /\ u.at = at[d] /\ u.live /\ u.text = t
  BY ZenonT(40), <1>1 DEF Slot, Idle, Ops
<1>3. Arrive(r, d, s) /\ Up(d) /\ at[d] \in Instances
  BY DEF Modify, Arrive, Ready, Base, ClientType
<1>. HIDE DEF s
<1>4. Fits(u, rows, conn)
  BY <1>2, <1>3 DEF Fits, Up
<1>. QED
  BY <1>2, <1>3, <1>4, Arrives

\* A read receipt, a resume or a history request arrives.
LEMMA PullStep ==
    ASSUME Base, NEW r \in Requests, NEW d \in Devices,
           NEW op \in {"read", "resume", "history"}, NEW u \in Users, Pull(r, d, op, u)
    PROVE  Step
<1>. DEFINE s == [Idle EXCEPT !.op = op, !.pc = "select", !.peer = u, !.id = Cursor(d)]
            t == [s EXCEPT !.dev = d, !.at = at[d], !.live = TRUE]
<1>1. Idle \in Slot /\ Cursor(d) \in 0 .. MaxRows
  BY IdleFits, CursorIs
<1>2. /\ s \in Slot /\ s.op = op
      /\ t.op = op /\ t.pc = "select" /\ t.dev = d /\ t.at = at[d] /\ t.live /\ t.peer = u /\ t.page = <<>>
  BY <1>1 DEF Slot, Idle, Ops
<1>3. Arrive(r, d, s) /\ Up(d) /\ at[d] \in Instances
  BY DEF Pull, Arrive, Ready, Base, ClientType
<1>. HIDE DEF s
<1>4. Fits(t, rows, conn)
  BY <1>2, <1>3 DEF Fits, Up
<1>. QED
  BY <1>2, <1>3, <1>4, Arrives

\* The nonce of a chat is looked up.
LEMMA LookupStep ==
    ASSUME Base, NEW r \in Requests, Lookup(r) PROVE Step
<1>0. RowsGrow /\ UNCHANGED <<tables, clients, history>> /\ UNCHANGED conn
  BY RowsStay DEF Base, Lookup, Found, tables, clients
<1>1. req[r] \in Slot /\ Fits(req[r], rows, conn) /\ req[r].pc = "lookup" /\ req[r].op = "chat"
  BY InFlight DEF Base, Lookup, Found
<1>2. CASE Goto(r, "insert")
  BY <1>0, <1>1, <1>2, GoesOn, QuietStep DEF Base
<1>3. ASSUME NEW i \in DOMAIN rows, rows[i].from = me(r),
             req' = [req EXCEPT ![r].id = i,
                                ![r].pc = IF req[r].att = None THEN "push" ELSE "link"]
      PROVE  Step
  <2>. DEFINE pc == IF req[r].att = None THEN "push" ELSE "link"
              s == [req[r] EXCEPT !.id = i, !.pc = pc]
  <2>1. i \in 0 .. MaxRows
    BY MessagesConstants DEF Base, RowsType, MessagesConstants
  <2>2. /\ s \in Slot /\ s.op = "chat" /\ s.dev = req[r].dev /\ s.live = req[r].live
        /\ s.peer = req[r].peer /\ s.text = req[r].text /\ s.id = i /\ s.pc = pc
        /\ s.att = req[r].att /\ s.at = req[r].at
    BY <1>1, <2>1 DEF Slot
  <2>3. pc = "push" \/ (pc = "link" /\ req[r].att \in Atts)
    BY <1>1 DEF Slot
  <2>. HIDE DEF pc
  <2>4. req' = [req EXCEPT ![r] = s]
    BY <1>3 DEF pc
  <2>. HIDE DEF s
  <2>5. Fits(s, rows, conn)
    BY <1>1, <1>3, <2>2, <2>3 DEF Fits, me
  <2>6. Fits(s, rows', conn')
    BY <1>0, <2>2, <2>5, FitsStays DEF Base, Fits
  <2>. QED
    BY <1>0, <2>2, <2>4, <2>6, SlotMoves, QuietStep DEF Base
<1>. QED
  BY <1>2, <1>3 DEF Lookup, Found

\* A message is stored: its id is the new last row, and its sender is the device's user.
LEMMA InsertStep ==
    ASSUME Base, NEW r \in Requests, Insert(r) PROVE Step
<1>1. req[r] \in Slot /\ Fits(req[r], rows, conn) /\ req[r].pc = "insert" /\ req[r].op = "chat"
  BY InFlight DEF Base, Insert
<1>2. RowsGrow /\ Len(rows') = Len(rows) + 1 /\ rows'[Len(rows) + 1].from = me(r)
  BY <1>1, InsertGrows DEF Base
<1>3. ClientsGo /\ HistoryType' /\ UNCHANGED conn
  BY ClientsStay DEF Base, Insert, clients, history, HistoryType
<1>. DEFINE pc == IF req[r].att = None THEN "push" ELSE "link"
            i == Len(rows) + 1
            s == [req[r] EXCEPT !.id = i, !.pc = pc]
<1>4. i \in 0 .. MaxRows /\ i \in DOMAIN rows'
  BY <1>2 DEF RowsGrow, RowsType
<1>. HIDE DEF i
<1>5. /\ s \in Slot /\ s.op = "chat" /\ s.dev = req[r].dev /\ s.live = req[r].live
      /\ s.peer = req[r].peer /\ s.text = req[r].text /\ s.id = i /\ s.pc = pc
      /\ s.att = req[r].att /\ s.at = req[r].at
  BY <1>1, <1>4 DEF Slot
<1>6. pc = "push" \/ (pc = "link" /\ req[r].att \in Atts)
  BY <1>1 DEF Slot
<1>. HIDE DEF pc
<1>7. req' = [req EXCEPT ![r] = s]
  BY DEF pc, Insert, i
<1>. HIDE DEF s
<1>8. rows'[i].from = Owner[req[r].dev]
  BY <1>2 DEF i, me
<1>9. Fits(s, rows', conn')
  BY <1>1, <1>3, <1>4, <1>5, <1>6, <1>8 DEF Fits
<1>10. ReqInv'
  BY <1>2, <1>3, <1>5, <1>7, <1>9, SlotMoves DEF Base
<1>11. ReactsType' /\ AttsType'
  BY <1>2, RestStays DEF Insert
<1>. QED
  BY <1>2, <1>3, <1>10, <1>11 DEF Step, Base, RowsGrow, ClientsGo

\* A message that cannot be stored ends its handler.
LEMMA InsertFailsStep ==
    ASSUME Base, NEW r \in Requests, InsertFails(r) PROVE Step
  BY RowsStay, Finishes, QuietStep DEF Base, InsertFails, tables, clients

\* An attachment is linked to the message just stored.
LEMMA LinkStep ==
    ASSUME Base, NEW r \in Requests, link_attachment(r) PROVE Step
<1>1. req[r] \in Slot /\ Fits(req[r], rows, conn) /\ req[r].pc = "link" /\ req[r].op = "chat"
  BY InFlight DEF Base, link_attachment
<1>2. RowsGrow /\ ClientsGo /\ HistoryType' /\ UNCHANGED <<rows, conn, reacts>>
  BY RowsStay, ClientsStay DEF Base, link_attachment, clients, history, HistoryType
<1>3. ReqInv'
  BY <1>1, <1>2, GoesOn DEF Base, link_attachment
<1>4. AttsType'
  <2>1. req[r].id \in 0 .. Len(rows)
    BY <1>1 DEF Fits, Base, RowsType
  <2>. QED
    BY <1>2, <2>1 DEF link_attachment, AttsType, Base
<1>. QED
  BY <1>2, <1>3, <1>4 DEF Step, Base, ReactsType, RowsType, ClientsGo

\* A chat frame is shown on the devices of both parties, or is on its way to them.
LEMMA PushChatStep ==
    ASSUME Base, NEW r \in Requests, PushChat(r)
    PROVE  /\ Step
           /\ \A d \in Devices : Up(d) /\ Owner[d] \in {req[r].peer, me(r)} =>
                  view'[d][req[r].id] # Unseen \/ req[r].id \in Queued(d)'
<1>1. /\ req[r] \in Slot /\ Fits(req[r], rows, conn) /\ req[r].op = "chat" /\ req[r].pc = "push"
      /\ req[r].at \in Instances
  BY InFlight DEF Base, PushChat, Fits
<1>2. req[r].text \in Texts /\ req[r].id \in DOMAIN rows /\ req[r].peer \in Users /\ me(r) \in Users
  BY <1>1, MessagesConstants DEF Fits, me, MessagesConstants
<1>3. RowsGrow /\ UNCHANGED <<rows, reacts, atts, conn, at>> /\ HistoryType'
  BY RowsStay DEF Base, PushChat, tables, history, HistoryType
<1>4. req[r].id \in Ids
  BY <1>2, MessagesConstants DEF Base, RowsType, Ids, MessagesConstants
<1>. DEFINE texts == [i \in {req[r].id} |-> req[r].text]
            f == News({req[r].peer, me(r)}, texts)
<1>5. texts \in Pages /\ DOMAIN texts = {req[r].id}
  BY <1>2, <1>4, OneIsPage
<1>6. Push(r, f)
  BY DEF PushChat
<1>. HIDE DEF texts
<1>7. /\ f \in Frame /\ f.to = {req[r].peer, me(r)} /\ f.by = None /\ f.texts = texts /\ ~f.update
  BY <1>2, <1>5, FramesAre
<1>. HIDE DEF f
<1>8. ClientsGo /\ \A d \in Devices, n \in DOMAIN f.texts :
          Up(d) /\ Owner[d] \in f.to => view'[d][n] # Unseen \/ n \in Queued(d)'
  BY <1>1, <1>3, <1>6, <1>7, Pushes DEF Base
<1>9. ReqInv'
  BY <1>3, Finishes DEF Base, PushChat
<1>10. ReactsType' /\ AttsType'
  BY <1>3, RestStays
<1>. QED
  BY <1>3, <1>5, <1>7, <1>8, <1>9, <1>10 DEF Step, RowsGrow, ClientsGo, Base

\* A frame to edit, delete or react passes its check or is dropped.
LEMMA SelectStep ==
    ASSUME Base, NEW r \in Requests, Select(r) PROVE Step
<1>1. RowsGrow /\ UNCHANGED <<tables, clients, history>> /\ UNCHANGED conn
  BY RowsStay DEF Base, Select, tables, clients
<1>2. CASE Finish(r)
  BY <1>1, <1>2, Finishes, QuietStep DEF Base
<1>3. CASE Allowed(r) /\ Goto(r, "write")
  BY <1>1, <1>3, GoesOn, QuietStep DEF Base, Select, Allowed
<1>. QED
  BY <1>2, <1>3 DEF Select

\* A reaction, an edit or a deletion is written.
LEMMA WriteStep ==
    ASSUME Base, NEW r \in Requests, Write(r) PROVE Step
<1>1. /\ RowsGrow /\ Len(rows') = Len(rows) /\ req[r].id \in DOMAIN rows
      /\ req[r].op = "react" => rows' = rows
  BY WriteGrows DEF Base
<1>2. DOMAIN rows' = DOMAIN rows
  BY <1>1 DEF Base, RowsGrow, RowsType
<1>3. ReqInv'
  BY <1>1, GoesOn DEF Base, Write, clients
<1>4. ClientsGo
  BY ClientsStay DEF Base, Write, clients
<1>5. me(r) \in Users
  <2>1. req[r] \in Slot /\ Fits(req[r], rows, conn)
    BY InFlight DEF Base
  <2>. QED
    BY <2>1, MessagesConstants DEF Fits, Write, me, MessagesConstants
<1>6. ReactsType'
  <2>1. reacts' = reacts \/ reacts' = reacts \cup {<<req[r].id, me(r)>>}
        \/ reacts' = reacts \ {<<req[r].id, me(r)>>}
    BY DEF Write
  <2>. QED
    BY <1>1, <1>2, <1>5, <2>1 DEF ReactsType, Base
<1>7. AttsType'
  BY <1>1 DEF AttsType, Base, Write
<1>8. HistoryType'
  <2>1. req[r].id \in Ids
    BY <1>1, MessagesConstants DEF Base, RowsType, Ids, MessagesConstants
  <2>2. raced' = raced \/ raced' \subseteq raced \cup {req[r].id}
    BY DEF Write
  <2>. QED
    BY <2>1, <2>2 DEF HistoryType, Base, Write
<1>. QED
  BY <1>1, <1>3, <1>4, <1>6, <1>7, <1>8 DEF Step, Base, RowsGrow, ClientsGo

\* A write fails and the handler goes on.
LEMMA WriteFailsStep ==
    ASSUME Base, NEW r \in Requests, WriteFails(r) PROVE Step
<1>1. req[r] \in Slot /\ Fits(req[r], rows, conn) /\ req[r].pc = "write"
      /\ req[r].op \in Ops \cup {"idle"}
  BY InFlight DEF Base, WriteFails
<1>2. /\ req[r].op \in {"react", "edit", "delete", "read", "history"}
      /\ req[r].op \in {"react", "edit", "delete"} => req[r].id \in DOMAIN rows
  BY <1>1 DEF Fits, Ops
<1>3. RowsGrow /\ ClientsGo /\ UNCHANGED <<reacts, atts, conn>>
  BY RowsStay, ClientsStay DEF Base, WriteFails, tables, clients
<1>4. ReqInv'
  BY <1>2, <1>3, GoesOn DEF Base, WriteFails
<1>5. ReactsType' /\ AttsType'
  BY <1>3, RestStays
<1>6. HistoryType'
  BY DEF HistoryType, Base, WriteFails
<1>. QED
  BY <1>3, <1>4, <1>5, <1>6 DEF Step, Base, RowsGrow, ClientsGo

\* What was written is pushed to both parties.
LEMMA PushUpdateStep ==
    ASSUME Base, NEW r \in Requests, PushUpdate(r) PROVE Step
<1>1. /\ req[r] \in Slot /\ Fits(req[r], rows, conn) /\ req[r].at \in Instances
      /\ req[r].id \in DOMAIN rows
  BY InFlight DEF Base, PushUpdate, Fits
<1>2. req[r].id \in Ids /\ rows[req[r].id] \in Message
  BY <1>1, MessagesConstants DEF Base, RowsType, Ids, MessagesConstants
<1>3. RowsGrow /\ UNCHANGED <<rows, reacts, atts, conn, at>> /\ HistoryType'
  BY RowsStay DEF Base, PushUpdate, tables, history, HistoryType
<1>4. ClientsGo
  <2>. DEFINE us == {rows[req[r].id].from, rows[req[r].id].to}
  <2>1. CASE UNCHANGED <<view, receipt, bus>>
    BY <1>3, <2>1, ClientsStay DEF Base, clients
  <2>2. ASSUME NEW t \in Texts \cup {Blank}, Push(r, Update(us, [i \in {req[r].id} |-> t]))
        PROVE  ClientsGo
    <3>. DEFINE texts == [i \in {req[r].id} |-> t]
    <3>1. texts \in Pages
      BY <1>2, OneIsPage
    <3>2. us \in SUBSET Users
      BY <1>2 DEF Message
    <3>3. Push(r, Update(us, texts))
      BY <2>2
    <3>. HIDE DEF texts, us
    <3>4. Update(us, texts) \in Frame /\ Update(us, texts).by = None
      BY <3>1, <3>2, FramesAre
    <3>. QED
      BY <1>1, <1>3, <3>3, <3>4, Pushes DEF Base
  <2>3. req[r].op = "edit" => req[r].text \in Texts
    BY <1>1 DEF Fits
  <2>. QED
    BY <2>1, <2>2, <2>3 DEF PushUpdate
<1>7. ReqInv'
  BY <1>3, Finishes DEF Base, PushUpdate
<1>8. ReactsType' /\ AttsType'
  BY <1>3, RestStays
<1>. QED
  BY <1>3, <1>4, <1>7, <1>8 DEF Step, RowsGrow, ClientsGo, Base

\* The newest inbound message is a stored one, or 0.
LEMMA NewestIs ==
    ASSUME RowsType, NEW u, NEW v
    PROVE  /\ Max({0} \cup Inbound(u, v)) \in 0 .. Len(rows)
           /\ \A i \in Inbound(u, v) : i <= Max({0} \cup Inbound(u, v))
<1>. DEFINE T == {0} \cup Inbound(u, v)
<1>1. Len(rows) \in Nat /\ T \subseteq 0 .. Len(rows) /\ T # {}
  BY DEF Inbound, RowsType
<1>2. \A i \in Inbound(u, v) : i \in T
  OBVIOUS
<1>. HIDE DEF T
<1>3. Max(T) \in 0 .. Len(rows) /\ \A i \in T : i <= Max(T)
  BY <1>1, MaxOfIds
<1>. QED
  BY <1>2, <1>3 DEF T

\* What a query returns fits a slot.
LEMMA BodiesArePage ==
    ASSUME RowsType, NEW is, is \subseteq DOMAIN rows PROVE Bodies(is) \in Pages
<1>1. is \in SUBSET Ids
  BY MessagesConstants DEF RowsType, Ids, MessagesConstants
<1>2. ASSUME NEW i \in is PROVE rows[i].body \in Texts \cup {Blank}
  <2>1. rows[i] \in Message
    BY DEF RowsType
  <2>. QED
    BY <2>1 DEF Message
<1>3. Bodies(is) \in [is -> Texts \cup {Blank}]
  BY <1>2 DEF Bodies
<1>. QED
  BY <1>1, <1>3 DEF Pages

\* A query of the history or of what was missed, or of the newest message to read.
LEMMA SelectPullStep ==
    ASSUME Base, NEW r \in Requests, SelectPull(r)
    PROVE  /\ Step
           /\ req'[r].op = "read" /\ req'[r].pc = "write" => req'[r].id <= Len(rows)
<1>1. req[r] \in Slot /\ Fits(req[r], rows, conn) /\ req[r].pc = "select"
      /\ req[r].op \in {"read", "resume", "history"} /\ req \in [Requests -> Slot]
  BY InFlight DEF Base, SelectPull, ReqInv
<1>2. /\ RowsGrow /\ ClientsGo /\ HistoryType' /\ UNCHANGED <<tables, clients>>
      /\ UNCHANGED <<conn, at, rows>> /\ ReactsType' /\ AttsType'
  <2>1. RowsGrow /\ ClientsGo /\ UNCHANGED <<rows, reacts, atts>>
    BY RowsStay, ClientsStay DEF Base, SelectPull, tables
  <2>2. UNCHANGED excused \/ \E S \in SUBSET Ids : excused' = [excused EXCEPT ![req[r].dev] = S]
    <3>1. Unpromised(req[r].dev, req[r].id, First(Missed(me(r), req[r].id), Page)) \in SUBSET Ids
      <4>1. excused[req[r].dev] \in SUBSET Ids
        BY <1>1 DEF Base, HistoryType, Fits
      <4>. QED
        BY <4>1 DEF Unpromised
    <3>. QED
      BY <3>1 DEF SelectPull
  <2>3. HistoryType'
    BY <2>2 DEF Base, HistoryType, SelectPull
  <2>. QED
    BY <2>1, <2>3, RestStays DEF SelectPull, tables, clients
<1>r. ReqInv' => Step
  BY <1>2 DEF Base, Step, RowsGrow, ClientsGo
<1>3. ASSUME NEW s \in Slot, req' = [req EXCEPT ![r] = s], s.op = req[r].op, s.dev = req[r].dev,
             s.at = req[r].at, s.live = req[r].live, s.peer = req[r].peer,
             s.pc \in {"write", "push"}, s.op = "resume" => s.pc = "push"
      PROVE  Step
  <2>1. Fits(s, rows', conn')
    BY <1>1, <1>2, <1>3 DEF Fits
  <2>. QED
    BY <1>2, <1>3, <1>r, <2>1, SlotMoves DEF Base
<1>4. ASSUME NEW i \in 0 .. Len(rows), req[r].op = "read",
             req' = [req EXCEPT ![r].id = i, ![r].pc = "write"]
      PROVE  Step /\ req'[r].id <= Len(rows)
  <2>. DEFINE s == [req[r] EXCEPT !.id = i, !.pc = "write"]
  <2>1. i \in 0 .. MaxRows /\ i <= Len(rows)
    <3>1. Len(rows) \in 0 .. MaxRows /\ MaxRows \in Nat
      BY MessagesConstants DEF Base, RowsType, MessagesConstants
    <3>. QED
      BY <3>1
  <2>2. /\ s \in Slot /\ s.op = req[r].op /\ s.dev = req[r].dev /\ s.live = req[r].live
        /\ s.peer = req[r].peer /\ s.pc = "write" /\ s.id = i /\ s.at = req[r].at
    BY <1>1, <2>1 DEF Slot
  <2>3. req' = [req EXCEPT ![r] = s]
    BY <1>4
  <2>. HIDE DEF s
  <2>4. req'[r].id = i
    BY <1>1, <2>2, <2>3
  <2>. QED
    BY <1>3, <1>4, <2>1, <2>2, <2>3, <2>4
<1>5. ASSUME NEW is, is \subseteq DOMAIN rows, NEW pc \in {"write", "push"},
             req[r].op # "read", req[r].op = "resume" => pc = "push",
             req' = [req EXCEPT ![r].page = Bodies(is), ![r].pc = pc]
      PROVE  Step /\ req'[r].op = req[r].op
  <2>. DEFINE s == [req[r] EXCEPT !.page = Bodies(is), !.pc = pc]
  <2>1. Bodies(is) \in Pages
    BY <1>5, BodiesArePage DEF Base
  <2>2. /\ s \in Slot /\ s.op = req[r].op /\ s.dev = req[r].dev /\ s.live = req[r].live
        /\ s.peer = req[r].peer /\ s.pc = pc /\ s.at = req[r].at
    BY <1>1, <2>1 DEF Slot
  <2>3. req' = [req EXCEPT ![r] = s]
    BY <1>5
  <2>. HIDE DEF s
  <2>4. req'[r].op = req[r].op
    BY <1>1, <2>2, <2>3
  <2>. QED
    BY <1>3, <1>5, <2>2, <2>3, <2>4
<1>6. CASE /\ req[r].op = "read"
           /\ \E i \in {0, Max({0} \cup Inbound(me(r), req[r].peer))} :
                req' = [req EXCEPT ![r].id = i, ![r].pc = "write"]
  <2>1. PICK i \in {0, Max({0} \cup Inbound(me(r), req[r].peer))} :
                req' = [req EXCEPT ![r].id = i, ![r].pc = "write"]
    BY <1>6
  <2>2. i \in 0 .. Len(rows)
    <3>1. Max({0} \cup Inbound(me(r), req[r].peer)) \in 0 .. Len(rows) /\ 0 \in 0 .. Len(rows)
      BY SMTT(20), NewestIs DEF Base, RowsType
    <3>. QED
      BY <3>1
  <2>. QED
    BY <1>4, <1>6, <2>1, <2>2
<1>7. CASE req[r].op # "read" /\ Finish(r)
  <2>1. req'[r].op = "idle"
    BY <1>1, <1>7 DEF Finish, Idle
  <2>. QED
    BY <1>2, <1>7, <1>r, <2>1, Finishes DEF Base
<1>8. CASE /\ req[r].op = "resume"
           /\ req' = [req EXCEPT ![r].page = Bodies(First(Missed(me(r), req[r].id), Page)),
                                 ![r].pc = "push"]
  <2>1. First(Missed(me(r), req[r].id), Page) \subseteq DOMAIN rows
    BY DEF First, Missed
  <2>. QED
    BY <1>5, <1>8, <2>1
<1>9. CASE /\ req[r].op = "history"
           /\ \E is \in HistoryWindows(Between(me(r), req[r].peer), req[r].id) :
                req' = [req EXCEPT ![r].page = Bodies(Last(is, Page)), ![r].pc = "write"]
  <2>1. PICK is \in HistoryWindows(Between(me(r), req[r].peer), req[r].id) :
                req' = [req EXCEPT ![r].page = Bodies(Last(is, Page)), ![r].pc = "write"]
    BY <1>9
  <2>2. Last(is, Page) \subseteq DOMAIN rows
    BY DEF Last, HistoryWindows, Between, Inbound
  <2>. QED
    BY <1>5, <1>9, <2>1, <2>2
<1>. QED
  BY <1>6, <1>7, <1>8, <1>9 DEF SelectPull

\* A conversation is marked read.
LEMMA MarkReadStep ==
    ASSUME Base, NEW r \in Requests, MarkRead(r) PROVE Step
<1>1. RowsGrow /\ ClientsGo /\ UNCHANGED <<reacts, atts, conn>> /\ HistoryType'
  BY MarkGrows, ClientsStay DEF Base, MarkRead, clients, history, HistoryType
<1>2. ReqInv'
  BY <1>1, GoesOn DEF Base, MarkRead
<1>3. ReactsType' /\ AttsType'
  BY <1>1, RestStays
<1>. QED
  BY <1>1, <1>2, <1>3 DEF Step, Base, RowsGrow, ClientsGo

\* A receipt raises what the peer's devices here were told, and is on its way to the others.
LEMMA PushReceiptStep ==
    ASSUME Base, NEW r \in Requests, PushReceipt(r)
    PROVE  /\ Step
           /\ me(r) \in Users /\ req[r].peer \in Users /\ req[r].op = "read" /\ req[r].pc = "push"
           /\ req[r].id \in 0 .. MaxRows
<1>1. /\ req[r] \in Slot /\ Fits(req[r], rows, conn) /\ req[r].op = "read" /\ req[r].pc = "push"
      /\ req[r].at \in Instances
  BY InFlight DEF Base, PushReceipt, Fits
<1>2. RowsGrow /\ UNCHANGED <<rows, reacts, atts, conn, at>> /\ HistoryType'
  BY RowsStay DEF Base, PushReceipt, tables, history, HistoryType
<1>3. me(r) \in Users /\ req[r].peer \in Users /\ req[r].id \in 0 .. MaxRows
  BY <1>1, MessagesConstants DEF Fits, Slot, me, MessagesConstants
<1>. DEFINE f == Receipt(req[r].peer, me(r), req[r].id)
<1>4. /\ f \in Frame /\ f.to = {req[r].peer} /\ f.by = me(r) /\ f.upTo = req[r].id
  BY <1>3, FramesAre
<1>5. Push(r, f)
  BY DEF PushReceipt
<1>6. ClientsGo
  BY <1>1, <1>2, <1>4, <1>5, Pushes DEF Base
<1>7. ReqInv'
  BY <1>2, Finishes DEF Base, PushReceipt
<1>8. ReactsType' /\ AttsType'
  BY <1>2, RestStays
<1>. QED
  BY <1>1, <1>2, <1>3, <1>6, <1>7, <1>8 DEF Step, RowsGrow, ClientsGo, Base

\* A backfill is shown on every connected device of the account, or is on its way to it.
LEMMA PushBackfillStep ==
    ASSUME Base, NEW r \in Requests, PushBackfill(r)
    PROVE  /\ Step
           /\ \A d \in Devices, i \in DOMAIN req[r].page :
                  Up(d) /\ Owner[d] = me(r) => view'[d][i] # Unseen \/ i \in Queued(d)'
<1>1. /\ req[r] \in Slot /\ Fits(req[r], rows, conn) /\ req[r].op = "resume" /\ req[r].pc = "push"
      /\ req[r].at \in Instances
  BY InFlight DEF Base, PushBackfill, Fits
<1>2. me(r) \in Users /\ req[r].page \in Pages
  BY <1>1, MessagesConstants DEF Fits, Slot, me, MessagesConstants
<1>3. RowsGrow /\ UNCHANGED <<rows, reacts, atts, conn, at>> /\ HistoryType'
  BY RowsStay DEF Base, PushBackfill, tables, history, HistoryType
<1>. DEFINE f == News({me(r)}, req[r].page)
<1>4. Push(r, f)
  BY DEF PushBackfill
<1>5. /\ f \in Frame /\ f.to = {me(r)} /\ f.by = None /\ f.texts = req[r].page /\ ~f.update
  BY <1>2, FramesAre
<1>. HIDE DEF f
<1>6. ClientsGo /\ \A d \in Devices, n \in DOMAIN f.texts :
          Up(d) /\ Owner[d] \in f.to => view'[d][n] # Unseen \/ n \in Queued(d)'
  BY <1>1, <1>3, <1>4, <1>5, Pushes DEF Base
<1>7. ReqInv'
  BY <1>3, Finishes DEF Base, PushBackfill
<1>8. ReactsType' /\ AttsType'
  BY <1>3, RestStays
<1>. QED
  BY <1>3, <1>5, <1>6, <1>7, <1>8 DEF Step, RowsGrow, ClientsGo, Base

\* A page of the history is shown on the device that asked.
LEMMA ReplyHistoryStep ==
    ASSUME Base, NEW r \in Requests, ReplyHistory(r) PROVE Step
<1>1. req[r] \in Slot /\ Fits(req[r], rows, conn) /\ req[r].op = "history"
      /\ req[r].dev \in Devices
  BY InFlight DEF Base, ReplyHistory, Fits
<1>3. RowsGrow /\ UNCHANGED <<rows, reacts, atts, conn, at, bus, receipt>> /\ HistoryType'
  BY RowsStay DEF Base, ReplyHistory, tables, history, HistoryType
<1>4. ClientsGo
  <2>. DEFINE d == req[r].dev
              page == req[r].page
              shown == [i \in Ids |-> IF i \in DOMAIN page THEN page[i] ELSE view[d][i]]
  <2>1. view' = view \/ view' = [view EXCEPT ![d] = shown]
    BY <1>1 DEF ReplyHistory, Base, ClientType
  <2>2. \A i \in DOMAIN page : page[i] \in Texts \cup {Blank}
    BY <1>1, PageIs DEF Slot
  <2>3. view \in [Devices -> [Ids -> Texts \cup {Blank, Unseen}]]
    BY DEF Base, ClientType
  <2>4. Unseen \notin Texts \cup {Blank}
    BY MessagesConstants DEF MessagesConstants, Unseen, Blank
  <2>. HIDE DEF page
  <2>5. shown \in [Ids -> Texts \cup {Blank, Unseen}]
        /\ \A i \in Ids : view[d][i] # Unseen => shown[i] # Unseen
    BY <1>1, <2>2, <2>3, <2>4
  <2>. HIDE DEF shown
  <2>6. view' \in [Devices -> [Ids -> Texts \cup {Blank, Unseen}]]
        /\ \A e \in Devices, i \in Ids : view[e][i] # Unseen => view'[e][i] # Unseen
    BY <1>1, <2>1, <2>3, <2>5
  <2>. QED
    BY <1>3, <2>6 DEF ClientsGo, ClientType, Base, Told, Sent, Taken
<1>7. ReqInv'
  BY <1>3, Finishes DEF Base, ReplyHistory
<1>8. ReactsType' /\ AttsType'
  BY <1>3, RestStays
<1>. QED
  BY <1>3, <1>4, <1>7, <1>8 DEF Step, RowsGrow, ClientsGo, Base

\* A handler whose connection is gone is aborted.
LEMMA AbortStep ==
    ASSUME Base, NEW r \in Requests, Abort(r) PROVE Step
<1>1. RowsGrow /\ ClientsGo /\ UNCHANGED <<rows, reacts, atts, conn>>
  BY RowsStay, ClientsStay DEF Base, Abort, tables, clients
<1>2. HistoryType'
  BY DEF HistoryType, Base, Abort
<1>3. ReqInv'
  BY <1>1, Finishes DEF Base, Abort
<1>4. ReactsType' /\ AttsType'
  BY <1>1, RestStays
<1>. QED
  BY <1>1, <1>2, <1>3, <1>4 DEF Step, Base, RowsGrow, ClientsGo

\* An attachment is registered.
LEMMA PresignStep ==
    ASSUME Base, NEW d \in Devices, NEW a \in Atts, Presign(d, a) PROVE Step
<1>1. RowsGrow /\ ClientsGo /\ UNCHANGED <<rows, reacts, req, conn>> /\ HistoryType'
  BY RowsStay, ClientsStay DEF Base, Presign, clients, history, HistoryType
<1>2. ReqInv'
  BY <1>1, SlotsStay DEF Base
<1>3. AttsType'
  <2>1. Owner[d] \in Users
    BY MessagesConstants DEF MessagesConstants
  <2>2. atts[a] \in [owner : Users \cup {None}, msg : 0 .. Len(rows)]
    BY DEF Base, AttsType
  <2>3. [atts[a] EXCEPT !.owner = Owner[d]] \in [owner : Users \cup {None}, msg : 0 .. Len(rows)]
    BY <2>1, <2>2
  <2>4. atts' = [atts EXCEPT ![a] = [atts[a] EXCEPT !.owner = Owner[d]]]
    BY DEF Presign
  <2>. HIDE DEF AttsType
  <2>5. atts' \in [Atts -> [owner : Users \cup {None}, msg : 0 .. Len(rows)]]
    BY <2>3, <2>4 DEF AttsType, Base
  <2>. QED
    BY <1>1, <2>5 DEF AttsType
<1>. QED
  BY <1>1, <1>2, <1>3 DEF Step, Base, ReactsType, RowsType, ClientsGo

\* A connection breaks: its handlers have none any more.
LEMMA DropStep ==
    ASSUME Base, NEW d \in Devices, Drop(d) PROVE Step
<1>1. RowsGrow /\ UNCHANGED <<rows, reacts, atts, at, bus, view, receipt>> /\ HistoryType'
  BY RowsStay DEF Base, Drop, tables, history, HistoryType
<1>2. conn' \in [Devices -> {"up", "down"}] /\ ClientsGo
  BY <1>1 DEF Base, Drop, ClientsGo, ClientType, Told, Sent, Taken
<1>3. ASSUME NEW r \in Requests PROVE req'[r] \in Slot /\ Fits(req'[r], rows', conn')
  <2>1. req[r] \in Slot /\ Fits(req[r], rows, conn)
    BY InFlight DEF Base
  <2>2. CASE req[r].dev = d
    <3>. DEFINE s == [req[r] EXCEPT !.live = FALSE]
    <3>1. /\ s \in Slot /\ s.op = req[r].op /\ s.pc = req[r].pc /\ s.dev = req[r].dev
          /\ s.peer = req[r].peer /\ s.text = req[r].text /\ s.id = req[r].id
          /\ s.att = req[r].att /\ s.at = req[r].at /\ s.page = req[r].page /\ ~s.live
      BY <2>1 DEF Slot
    <3>2. req'[r] = s
      BY <2>2 DEF Drop
    <3>. HIDE DEF s
    <3>. QED
      BY <1>1, <2>1, <3>1, <3>2 DEF Fits
  <2>3. CASE req[r].dev # d
    <3>1. req'[r] = req[r]
      BY <2>3 DEF Drop
    <3>2. req[r].dev \in Devices => conn'[req[r].dev] = conn[req[r].dev]
      BY <2>3 DEF Drop, Base, ClientType
    <3>. QED
      BY <1>1, <2>1, <3>1, <3>2 DEF Fits
  <2>. QED
    BY <2>2, <2>3
<1>4. ReqInv'
  <2>1. req' = [r \in Requests |-> req'[r]]
    BY DEF Drop
  <2>. QED
    BY <1>3, <2>1 DEF ReqInv
<1>5. ReactsType' /\ AttsType'
  BY <1>1, RestStays
<1>. QED
  BY <1>1, <1>2, <1>4, <1>5 DEF Step, RowsGrow, ClientsGo, Base

\* A device is connected again, and is promised nothing that was there before.
LEMMA ReconnectStep ==
    ASSUME Base, NEW d \in Devices, NEW j \in Instances, Reconnect(d, j) PROVE Step
<1>1. RowsGrow /\ UNCHANGED <<rows, reacts, atts, req, bus, view, receipt>>
  BY RowsStay DEF Base, Reconnect, tables
<1>2. conn' \in [Devices -> {"up", "down"}] /\ at' \in [Devices -> Instances] /\ ClientsGo
      /\ \A e \in Devices : conn[e] = "up" => conn'[e] = "up"
  BY <1>1 DEF Base, Reconnect, ClientsGo, ClientType, Told, Sent, Taken
<1>3. HistoryType'
  <2>1. DOMAIN rows \subseteq Ids
    BY MessagesConstants DEF Base, RowsType, Ids, MessagesConstants
  <2>. QED
    BY <2>1 DEF Base, HistoryType, Reconnect
<1>4. ReqInv'
  BY <1>1, <1>2 DEF Base, ReqInv, Fits
<1>5. ReactsType' /\ AttsType'
  BY <1>1, RestStays
<1>. QED
  BY <1>1, <1>2, <1>3, <1>4, <1>5 DEF Step, RowsGrow, ClientsGo, Base

\* A frame arrives from another instance: it is shown on the devices of its users there,
\* and where it is lost its messages are excused.
LEMMA RelayStep ==
    ASSUME Base, NEW i \in Instances, NEW j \in Instances, NEW lost \in SUBSET Users,
           Relay(i, j, lost)
    PROVE  /\ Step
           /\ \A d \in Devices : excused[d] \subseteq excused'[d]
           /\ LET f == Head(bus[i][j]) IN
              \A d \in Devices, n \in DOMAIN f.texts :
                  Up(d) /\ at[d] = j /\ Owner[d] \in f.to /\ ~f.update =>
                      view'[d][n] # Unseen \/ n \in excused'[d]
<1>. DEFINE f == Head(bus[i][j])
<1>0. bus \in [Instances -> [Instances -> Seq(Frame)]]
  BY DEF Base, ClientType
<1>1. bus[i][j] \in Seq(Frame) /\ bus[i][j] # <<>> /\ bus' = [bus EXCEPT ![i][j] = Tail(@)]
  BY <1>0 DEF Relay
<1>2. /\ f \in Frame /\ f \in Range(bus[i][j]) /\ Tail(bus[i][j]) \in Seq(Frame)
      /\ Range(Tail(bus[i][j])) \subseteq Range(bus[i][j])
      /\ \A g \in Range(bus[i][j]) : g = f \/ g \in Range(Tail(bus[i][j]))
  BY <1>1, Takes
<1>3. deliver_local(j, f.to \ lost, f)
  BY DEF Relay
<1>4. RowsGrow /\ UNCHANGED <<rows, reacts, atts, req, conn, at>>
  BY RowsStay DEF Base, Relay, tables
<1>5. ASSUME NEW k \in Instances, NEW l \in Instances
      PROVE  /\ bus'[k][l] \in Seq(Frame) /\ bus'[k] \in [Instances -> Seq(Frame)]
             /\ Range(bus'[k][l]) \subseteq Range(bus[k][l])
             /\ \A g \in Range(bus[k][l]) :
                    g \in Range(bus'[k][l]) \/ (k = i /\ l = j /\ g = f)
  <2>. DEFINE rest == Tail(bus[i][j])
  <2>. HIDE DEF f
  <2>1. CASE k = i /\ l = j
    <3>1. bus'[k][l] = rest /\ bus'[k] \in [Instances -> Seq(Frame)]
      BY <1>0, <1>1, <1>2, <2>1
    <3>. QED
      BY <1>2, <2>1, <3>1
  <2>2. CASE ~(k = i /\ l = j)
    <3>1. bus'[k][l] = bus[k][l] /\ bus'[k] \in [Instances -> Seq(Frame)]
      BY <1>0, <1>1, <1>2, <2>2
    <3>. QED
      BY <1>0, <2>2, <3>1
  <2>. QED
    BY <2>1, <2>2
<1>6. bus' \in [Instances -> [Instances -> Seq(Frame)]]
  <2>1. bus' = [k \in Instances |-> bus'[k]]
    BY <1>0, <1>1
  <2>. QED
    BY <1>5, <2>1
<1>7. DOMAIN f.texts \subseteq Ids
  BY <1>2, PageIs DEF Frame
<1>. HIDE DEF f
<1>8. ClientsGo
  <2>1. ClientType'
    BY <1>2, <1>3, <1>4, <1>6, Delivers DEF Base, ClientType
  <2>2. Told
    <3>1. ASSUME NEW d \in Devices, NEW u \in Users
          PROVE  \/ receipt'[d][u] = receipt[d][u]
                 \/ u = f.by /\ Owner[d] \in f.to /\ receipt'[d][u] = f.upTo
      BY <1>2, <1>3, Delivers DEF Base
    <3>. QED
      BY <1>2, <3>1 DEF Told
  <2>3. Sent /\ Taken
    BY <1>5 DEF Sent, Taken, f
  <2>. QED
    BY <1>2, <1>3, <2>1, <2>2, <2>3, Delivers DEF Base, ClientsGo
<1>9. ASSUME NEW d \in Devices
      PROVE  /\ excused'[d] \in SUBSET Ids /\ excused[d] \subseteq excused'[d]
             /\ \A n \in DOMAIN f.texts :
                  Up(d) /\ at[d] = j /\ Owner[d] \in f.to /\ ~f.update =>
                      view'[d][n] # Unseen \/ n \in excused'[d]
  <2>1. excused[d] \in SUBSET Ids
    BY DEF Base, HistoryType
  <2>2. excused'[d] = IF Up(d) /\ at[d] = j /\ Owner[d] \in lost /\ ~f.update
                      THEN excused[d] \cup DOMAIN f.texts ELSE excused[d]
    BY DEF Relay, f
  <2>3. ~f.update => \A n \in DOMAIN f.texts :
            Up(d) /\ at[d] = j /\ Owner[d] \in f.to \ lost => view'[d][n] # Unseen
    BY <1>2, <1>3, Delivers DEF Base
  <2>. QED
    BY <1>7, <2>1, <2>2, <2>3
<1>10. HistoryType'
  <2>1. excused' = [d \in Devices |-> excused'[d]]
    BY DEF Relay
  <2>. QED
    BY <1>9, <2>1 DEF Base, HistoryType, Relay
<1>11. ReqInv'
  BY <1>4, SlotsStay DEF Base
<1>12. ReactsType' /\ AttsType'
  BY <1>4, RestStays
<1>. QED
  BY <1>4, <1>8, <1>9, <1>10, <1>11, <1>12 DEF Step, RowsGrow, ClientsGo, Base, f

\* Nothing happens.
LEMMA StutterStep ==
    ASSUME Base, UNCHANGED vars PROVE Step
  BY RowsStay, SlotsStay, QuietStep DEF Base, vars, tables, clients, history

-----------------------------------------------------------------------------
(* The types are kept *)

\* The initial states satisfy the base invariant.
LEMMA Start == Init => Base
<1>. SUFFICES ASSUME Init PROVE Base
  OBVIOUS
<1>1. 0 \in 0 .. MaxRows /\ 0 \in Nat
  BY MessagesConstants DEF MessagesConstants
<1>2. RowsType /\ Len(rows) = 0
  BY <1>1 DEF Init, RowsType
<1>3. ReactsType /\ ClientType /\ HistoryType
  <2>1. <<>> \in Seq(Frame)
    OBVIOUS
  <2>2. ClientType
    BY <1>1, <2>1 DEF Init, ClientType
  <2>. QED
    BY <2>2 DEF Init, ReactsType, HistoryType
<1>4. AttsType
  BY <1>1, <1>2 DEF Init, AttsType
<1>5. ReqInv
  BY IdleFits DEF Init, ReqInv
<1>. QED
  BY <1>2, <1>3, <1>4, <1>5 DEF Base

\* Whatever the step is.
LEMMA Steps == ASSUME Base, [Next]_vars PROVE Step
<1>1. CASE \E r \in Requests, d \in Devices, to \in Users, t \in Texts, n \in Nonces \cup {None},
              a \in Atts \cup {None} : Chat(r, d, to, t, n, a)
  BY <1>1, ChatStep
<1>2. CASE \E r \in Requests, d \in Devices, i \in Ids :
              \/ \E t \in Texts : Modify(r, d, "edit", i, t, FALSE)
              \/ Modify(r, d, "delete", i, None, FALSE)
              \/ \E on \in BOOLEAN : Modify(r, d, "react", i, None, on)
  BY <1>2, ModifyStep
<1>3. CASE \E r \in Requests, d \in Devices, op \in {"read", "resume", "history"}, u \in Users :
              Pull(r, d, op, u)
  BY <1>3, PullStep
<1>4. CASE \E r \in Requests :
              \/ Lookup(r) \/ Insert(r) \/ InsertFails(r) \/ link_attachment(r) \/ PushChat(r)
              \/ Select(r) \/ Write(r) \/ WriteFails(r) \/ PushUpdate(r)
              \/ SelectPull(r) \/ MarkRead(r) \/ PushReceipt(r) \/ PushBackfill(r)
              \/ ReplyHistory(r) \/ Abort(r)
  BY <1>4, LookupStep, InsertStep, InsertFailsStep, LinkStep, PushChatStep, SelectStep, WriteStep,
     WriteFailsStep, PushUpdateStep, SelectPullStep, MarkReadStep, PushReceiptStep,
     PushBackfillStep, ReplyHistoryStep, AbortStep
<1>5. CASE \E d \in Devices, a \in Atts : Presign(d, a)
  BY <1>5, PresignStep
<1>6. CASE \E d \in Devices : Drop(d) \/ \E j \in Instances : Reconnect(d, j)
  BY <1>6, DropStep, ReconnectStep
<1>8. CASE \E i, j \in Instances : \E lost \in SUBSET Users : Relay(i, j, lost)
  BY <1>8, RelayStep
<1>7. CASE UNCHANGED vars
  BY <1>7, StutterStep
<1>. QED
  BY <1>1, <1>2, <1>3, <1>4, <1>5, <1>6, <1>7, <1>8 DEF Next

\* Base is the inductive invariant: types, and what each handler's place says of its slot.
THEOREM Invariance == Spec => []Base
<1>1. Base /\ [Next]_vars => Base'
  BY Steps DEF Step
<1>. QED
  BY <1>1, Start, PTL DEF Spec

\* Every reachable state has the types of TypeOK: above all, reactions and attachments
\* only ever refer to messages that are stored.
THEOREM TypeCorrect == Spec => []TypeOK
  BY Invariance, BaseTypes, PTL

-----------------------------------------------------------------------------
(* Attachments *)

\* An attachment that is linked is its owner's, and so is the message it is linked to.
LinkInv ==
    \A a \in Atts : atts[a].msg # 0 =>
        atts[a].msg \in DOMAIN rows /\ rows[atts[a].msg].from = atts[a].owner

\* Only linking and registering touch attachments.
LEMMA AttsKept ==
    ASSUME Next
    PROVE  \/ UNCHANGED atts
           \/ \E r \in Requests : link_attachment(r)
           \/ \E d \in Devices, a \in Atts : Presign(d, a)
<1>1. ASSUME NEW r, NEW d, NEW s, Arrive(r, d, s) PROVE UNCHANGED atts
  BY <1>1 DEF Arrive, tables
<1>2. ASSUME NEW r \in Requests,
             \/ Lookup(r) \/ Insert(r) \/ InsertFails(r) \/ PushChat(r)
             \/ Select(r) \/ Write(r) \/ WriteFails(r) \/ PushUpdate(r)
      PROVE  UNCHANGED atts
  BY <1>2 DEF Lookup, Found, Insert, InsertFails, PushChat, Select, Write, WriteFails, PushUpdate,
              tables
<1>3. ASSUME NEW r \in Requests,
             \/ SelectPull(r) \/ MarkRead(r) \/ PushReceipt(r) \/ PushBackfill(r)
             \/ ReplyHistory(r) \/ Abort(r)
      PROVE  UNCHANGED atts
  BY <1>3 DEF SelectPull, MarkRead, PushReceipt, PushBackfill, ReplyHistory, Abort, tables
<1>4. ASSUME NEW d, Drop(d) \/ (\E j : Reconnect(d, j)) \/ (\E i, j, lost : Relay(i, j, lost))
      PROVE  UNCHANGED atts
  BY <1>4 DEF Drop, Reconnect, Relay, tables
<1>5. ASSUME NEW r, NEW d,
             \/ \E to, t, n, a : Chat(r, d, to, t, n, a)
             \/ \E op, i, t, on : Modify(r, d, op, i, t, on)
             \/ \E op, u : Pull(r, d, op, u)
      PROVE  UNCHANGED atts
  BY <1>1, <1>5 DEF Chat, Modify, Pull
<1>. QED
  BY <1>2, <1>3, <1>4, <1>5 DEF Next

\* Every step keeps attachments within the two parties of their message.
LEMMA LinksKept == ASSUME Base, LinkInv, [Next]_vars PROVE LinkInv'
<1>1. Step
  BY Steps
<1>2. SUFFICES ASSUME NEW a \in Atts, atts'[a].msg # 0
               PROVE  /\ atts'[a].msg \in DOMAIN rows'
                      /\ rows'[atts'[a].msg].from = atts'[a].owner
  BY DEF LinkInv
<1>3. \A i \in DOMAIN rows : i \in DOMAIN rows' /\ rows'[i].from = rows[i].from
      /\ rows'[i].from \in Users
  <2>1. SUFFICES ASSUME NEW i \in DOMAIN rows
                 PROVE  i \in DOMAIN rows' /\ rows'[i].from = rows[i].from /\ rows'[i].from \in Users
    OBVIOUS
  <2>2. i \in 1 .. Len(rows) /\ i \in DOMAIN rows' /\ rows'[i] \in Message
    BY <1>1 DEF Step, RowsGrow, RowsType, Base
  <2>. QED
    BY <1>1, <2>2 DEF Step, RowsGrow, Message
<1>4. atts[a] \in [owner : Users \cup {None}, msg : 0 .. Len(rows)]
  BY DEF Base, AttsType
<1>5. CASE UNCHANGED atts
  BY <1>2, <1>3, <1>5 DEF LinkInv
<1>6. ASSUME NEW r \in Requests, link_attachment(r)
      PROVE  atts'[a].msg \in DOMAIN rows' /\ rows'[atts'[a].msg].from = atts'[a].owner
  <2>1. req[r].id \in DOMAIN rows /\ rows[req[r].id].from = me(r)
    BY <1>6, InFlight DEF Base, link_attachment, Fits, me
  <2>2. \/ atts'[a] = atts[a]
        \/ atts'[a].msg = req[r].id /\ atts'[a].owner = me(r)
    <3>1. CASE UNCHANGED atts
      BY <3>1
    <3>2. CASE /\ atts[req[r].att] = [owner |-> me(r), msg |-> 0]
               /\ atts' = [atts EXCEPT ![req[r].att].msg = req[r].id]
      <4>1. CASE a = req[r].att
        BY <1>4, <3>2, <4>1 DEF Base, AttsType
      <4>2. CASE a # req[r].att
        BY <3>2, <4>2 DEF Base, AttsType
      <4>. QED
        BY <4>1, <4>2
    <3>. QED
      BY <1>6, <3>1, <3>2 DEF link_attachment
  <2>. QED
    BY <1>2, <1>3, <2>1, <2>2 DEF LinkInv
<1>7. ASSUME NEW d \in Devices, NEW b \in Atts, Presign(d, b)
      PROVE  atts'[a].msg \in DOMAIN rows' /\ rows'[atts'[a].msg].from = atts'[a].owner
  <2>1. atts'[a].msg = atts[a].msg /\ (atts'[a] = atts[a] \/ atts[a].owner = None)
    BY <1>4, <1>7 DEF Presign, Base, AttsType
  <2>2. None \notin Users
    BY MessagesConstants DEF MessagesConstants
  <2>3. atts[a].msg \in DOMAIN rows /\ rows[atts[a].msg].from = atts[a].owner
    BY <1>2, <2>1 DEF LinkInv
  <2>4. UNCHANGED rows
    BY <1>7 DEF Presign
  <2>. QED
    BY <1>3, <2>1, <2>2, <2>3, <2>4
<1>8. UNCHANGED vars => UNCHANGED atts
  BY DEF vars
<1>. QED
  BY <1>5, <1>6, <1>7, <1>8, AttsKept

\* The message an attachment is linked to is its owner's, so that its owner and that
\* message's recipient are the only ones who can download it (link_attachment and
\* api_social_attachment_get).
THEOREM AttachmentsPrivate == Spec => []AttachmentPrivate
<1>1. Init => LinkInv
  BY DEF Init, LinkInv
<1>2. Base /\ LinkInv /\ [Next]_vars => LinkInv'
  BY LinksKept
<1>3. LinkInv => AttachmentPrivate
  BY DEF LinkInv, AttachmentPrivate, may_download
<1>. QED
  BY <1>1, <1>2, <1>3, Invariance, PTL DEF Spec

-----------------------------------------------------------------------------
(* How the slot of a handler moves *)

\* Slot s becomes t, and at most its connection is lost.
SlotKept(s, t) ==
    /\ t.op = s.op /\ t.pc = s.pc /\ t.dev = s.dev /\ t.peer = s.peer /\ t.id = s.id
    /\ t.page = s.page /\ (t.live => s.live)

\* What a step makes of the slot of q: it stays, it ends, a frame arrives, or q executes.
Moved(q) ==
    LET s == req[q]
        t == req'[q] IN
    \/ SlotKept(s, t) /\ (t.live = s.live \/ conn'[s.dev] # "up")
    \/ /\ t.op = "idle"
       /\ s.op # "chat" \/ PushChat(q) \/ Abort(q) \/ s.pc = "insert"
       /\ s.op # "resume" \/ PushBackfill(q) \/ ~s.live \/ s.pc = "select"
    \/ t.pc \in {"lookup", "insert", "select"} /\ (s.op = "idle" \/ s.pc = "lookup")
    \/ /\ s.op = "chat" /\ t.op = "chat" /\ t.pc \in {"link", "push"}
       /\ t.dev = s.dev /\ t.peer = s.peer
       /\ s.pc \in {"lookup", "insert"} \/ (s.pc = "link" /\ t.id = s.id)
    \/ Select(q) /\ Allowed(q) /\ t.op = s.op /\ t.id = s.id
    \/ s.op \in {"react", "edit", "delete"} /\ t.op = s.op /\ t.pc = "push"
    \/ SelectPull(q) /\ t.op # "idle"
    \/ /\ MarkRead(q) \/ WriteFails(q)
       /\ s.op \in {"read", "history"} /\ t.op = s.op /\ s.pc = "write" /\ t.pc = "push"
       /\ t.dev = s.dev /\ t.peer = s.peer /\ t.id = s.id

\* Slots that are left alone.
LEMMA UntouchedMoved ==
    ASSUME NEW q, req'[q] = req[q] PROVE Moved(q)
  BY DEF Moved, SlotKept

\* A frame takes an empty slot.
LEMMA ArrivesMoved ==
    ASSUME Base, NEW q \in Requests, NEW r \in Requests, NEW d, NEW s,
           s \in Slot, s.pc \in {"lookup", "insert", "select"}, Arrive(r, d, s)
    PROVE  Moved(q)
<1>1. CASE q = r
  <2>1. req[q].op = "idle"
    BY <1>1 DEF Arrive, Ready, Idle
  <2>2. [s EXCEPT !.dev = d, !.at = at[d], !.live = TRUE].pc = s.pc
    BY DEF Slot
  <2>3. req'[q].pc = s.pc
    BY <1>1, <2>2 DEF Arrive, Base, ReqInv
  <2>. QED
    BY <2>1, <2>3 DEF Moved
<1>2. CASE q # r
  <2>1. req'[q] = req[q]
    BY <1>2 DEF Arrive, Base, ReqInv
  <2>. QED
    BY <2>1, UntouchedMoved
<1>. QED
  BY <1>1, <1>2

\* The frames and requests of a client.
LEMMA FrameMoved ==
    ASSUME Base, NEW q \in Requests, NEW r \in Requests, NEW d \in Devices,
           \/ \E to \in Users, t \in Texts, n \in Nonces \cup {None}, a \in Atts \cup {None} :
                Chat(r, d, to, t, n, a)
           \/ \E i \in Ids : \/ \E t \in Texts : Modify(r, d, "edit", i, t, FALSE)
                             \/ Modify(r, d, "delete", i, None, FALSE)
                             \/ \E on \in BOOLEAN : Modify(r, d, "react", i, None, on)
           \/ \E op \in {"read", "resume", "history"}, u \in Users : Pull(r, d, op, u)
    PROVE  Moved(q)
<1>0. Idle \in Slot /\ Ids \subseteq 0 .. MaxRows /\ Cursor(d) \in 0 .. MaxRows
  BY IdleFits, CursorIs, MessagesConstants DEF Ids, MessagesConstants
<1>1. ASSUME NEW to \in Users, NEW t \in Texts, NEW n \in Nonces \cup {None},
             NEW a \in Atts \cup {None}, Chat(r, d, to, t, n, a)
      PROVE  Moved(q)
  <2>. DEFINE pc == IF n = None THEN "insert" ELSE "lookup"
              s == [Idle EXCEPT !.op = "chat", !.pc = pc, !.peer = to, !.text = t, !.nonce = n,
                                !.att = a]
  <2>1. s \in Slot /\ s.pc \in {"lookup", "insert", "select"}
    BY ZenonT(40), <1>0 DEF Slot, Idle, Ops
  <2>2. Arrive(r, d, s)
    BY <1>1 DEF Chat
  <2>. HIDE DEF s
  <2>. QED
    BY <2>1, <2>2, ArrivesMoved
<1>2. ASSUME NEW op \in {"edit", "delete", "react"}, NEW i \in Ids, NEW t \in Texts \cup {None},
             NEW on \in BOOLEAN, Modify(r, d, op, i, t, on)
      PROVE  Moved(q)
  <2>. DEFINE s == [Idle EXCEPT !.op = op, !.pc = "select", !.id = i, !.text = t, !.on = on]
  <2>1. s \in Slot /\ s.pc \in {"lookup", "insert", "select"}
    BY ZenonT(40), <1>0 DEF Slot, Idle, Ops
  <2>2. Arrive(r, d, s)
    BY <1>2 DEF Modify
  <2>. HIDE DEF s
  <2>. QED
    BY <2>1, <2>2, ArrivesMoved
<1>3. ASSUME NEW op \in {"read", "resume", "history"}, NEW u \in Users, Pull(r, d, op, u)
      PROVE  Moved(q)
  <2>. DEFINE s == [Idle EXCEPT !.op = op, !.pc = "select", !.peer = u, !.id = Cursor(d)]
  <2>1. s \in Slot /\ s.pc \in {"lookup", "insert", "select"}
    BY <1>0 DEF Slot, Idle, Ops
  <2>2. Arrive(r, d, s)
    BY <1>3 DEF Pull
  <2>. HIDE DEF s
  <2>. QED
    BY <2>1, <2>2, ArrivesMoved
<1>. QED
  BY <1>1, <1>2, <1>3

\* The statements of handle_ws_chat.
LEMMA ChatMoved ==
    ASSUME Base, NEW q \in Requests, NEW r \in Requests,
           Lookup(r) \/ Insert(r) \/ InsertFails(r) \/ link_attachment(r) \/ PushChat(r)
    PROVE  Moved(q)
<1>0. req \in [Requests -> Slot] /\ req[r] \in Slot
      /\ (req[r].pc \in {"lookup", "insert", "link"} => req[r].op = "chat")
  BY InFlight DEF Base, ReqInv
<1>1. CASE q # r
  <2>1. req'[q] = req[q]
    BY <1>0, <1>1 DEF Lookup, Found, Insert, InsertFails, link_attachment, PushChat, Goto, Finish
  <2>. QED
    BY <2>1, UntouchedMoved
<1>2. CASE q = r /\ Lookup(r)
  <2>1. req[q].op = "chat" /\ req[q].pc = "lookup"
    BY <1>0, <1>2 DEF Lookup, Found
  <2>2. CASE Goto(r, "insert")
    <3>1. req'[q].pc = "insert"
      BY <1>0, <1>2, <2>2 DEF Goto, Slot
    <3>. QED
      BY <2>1, <3>1 DEF Moved
  <2>3. ASSUME NEW i,
               req' = [req EXCEPT ![r].id = i,
                                  ![r].pc = IF req[r].att = None THEN "push" ELSE "link"]
        PROVE  Moved(q)
    <3>1. req'[q].op = "chat" /\ req'[q].pc \in {"push", "link"} /\ req'[q].dev = req[q].dev
          /\ req'[q].peer = req[q].peer
      BY <1>0, <1>2, <2>1, <2>3 DEF Slot
    <3>. QED
      BY <2>1, <3>1 DEF Moved
  <2>. QED
    BY <1>2, <2>2, <2>3 DEF Lookup, Found
<1>3. CASE q = r /\ Insert(r)
  BY <1>0, <1>3 DEF Insert, Moved, Slot
<1>4. CASE q = r /\ InsertFails(r)
  <2>1. req'[q].op = "idle" /\ req[q].op = "chat" /\ req[q].pc = "insert"
    BY <1>0, <1>4 DEF InsertFails, Finish, Idle
  <2>. QED
    BY <2>1 DEF Moved
<1>5. CASE q = r /\ link_attachment(r)
  BY <1>0, <1>5 DEF link_attachment, Goto, Moved, Slot
<1>6. CASE q = r /\ PushChat(r)
  <2>1. req'[q].op = "idle" /\ req[q].op = "chat"
    BY <1>0, <1>6 DEF PushChat, Finish, Idle
  <2>. QED
    BY <1>6, <2>1 DEF Moved
<1>. QED
  BY <1>1, <1>2, <1>3, <1>4, <1>5, <1>6

\* The statements of the handlers of edits, deletions and reactions.
LEMMA ModifyMoved ==
    ASSUME Base, NEW q \in Requests, NEW r \in Requests,
           Select(r) \/ Write(r) \/ WriteFails(r) \/ PushUpdate(r)
    PROVE  Moved(q)
<1>0. req \in [Requests -> Slot] /\ req[r] \in Slot /\ Fits(req[r], rows, conn)
      /\ req[r].op \in Ops \cup {"idle"}
  BY InFlight DEF Base, ReqInv
<1>1. CASE q # r
  <2>1. req'[q] = req[q]
    BY <1>0, <1>1 DEF Select, Write, WriteFails, PushUpdate, Goto, Finish
  <2>. QED
    BY <2>1, UntouchedMoved
<1>2. CASE q = r /\ Select(r)
  <2>1. CASE Allowed(r) /\ Goto(r, "write")
    <3>1. req'[q].op = req[q].op /\ req'[q].id = req[q].id
      BY <1>0, <1>2, <2>1 DEF Goto, Slot
    <3>. QED
      BY <1>2, <2>1, <3>1 DEF Moved
  <2>2. CASE Finish(r)
    <3>1. req'[q].op = "idle" /\ req[q].op \notin {"chat", "resume"}
      BY <1>0, <1>2, <2>2 DEF Finish, Idle, Select
    <3>. QED
      BY <3>1 DEF Moved
  <2>. QED
    BY <1>2, <2>1, <2>2 DEF Select
<1>3. CASE q = r /\ Write(r)
  <2>1. req[q].op \in {"react", "edit", "delete"} /\ req'[q].op = req[q].op /\ req'[q].pc = "push"
    BY <1>0, <1>3 DEF Write, Goto, Slot
  <2>. QED
    BY <2>1 DEF Moved
<1>4. CASE q = r /\ WriteFails(r)
  <2>1. /\ req'[q].op = req[q].op /\ req[q].pc = "write" /\ req'[q].pc = "push"
        /\ req'[q].dev = req[q].dev /\ req'[q].peer = req[q].peer /\ req'[q].id = req[q].id
    BY <1>0, <1>4 DEF WriteFails, Goto, Slot
  <2>2. req[q].op \in {"react", "edit", "delete", "read", "history"}
    BY <1>0, <1>4, <2>1 DEF Fits, Ops
  <2>. QED
    BY <1>4, <2>1, <2>2 DEF Moved
<1>5. CASE q = r /\ PushUpdate(r)
  <2>1. req'[q].op = "idle" /\ req[q].op \notin {"chat", "resume"}
    BY <1>0, <1>5 DEF PushUpdate, Finish, Idle
  <2>. QED
    BY <2>1 DEF Moved
<1>. QED
  BY <1>1, <1>2, <1>3, <1>4, <1>5

\* The statements of the handlers that pull, and aborts.
LEMMA PullMoved ==
    ASSUME Base, NEW q \in Requests, NEW r \in Requests,
           \/ SelectPull(r) \/ MarkRead(r) \/ PushReceipt(r) \/ PushBackfill(r)
           \/ ReplyHistory(r) \/ Abort(r)
    PROVE  Moved(q)
<1>0. req \in [Requests -> Slot] /\ req[r] \in Slot
  BY InFlight DEF Base, ReqInv
<1>1. CASE q # r
  <2>1. req'[q] = req[q]
    BY <1>0, <1>1 DEF SelectPull, MarkRead, PushReceipt, PushBackfill, ReplyHistory, Abort, Goto,
                      Finish
  <2>. QED
    BY <2>1, UntouchedMoved
<1>2. CASE q = r /\ SelectPull(r)
  <2>1. req[q].op # "chat" /\ req[q].pc = "select"
    BY <1>2 DEF SelectPull
  <2>2. CASE req'[q].op = "idle"
    BY <2>1, <2>2 DEF Moved
  <2>3. CASE req'[q].op # "idle"
    BY <1>2, <2>3 DEF Moved
  <2>. QED
    BY <2>2, <2>3
<1>3. CASE q = r /\ MarkRead(r)
  <2>1. /\ req'[q].op = req[q].op /\ req[q].pc = "write" /\ req'[q].pc = "push"
        /\ req'[q].dev = req[q].dev /\ req'[q].peer = req[q].peer /\ req'[q].id = req[q].id
        /\ req[q].op \in {"read", "history"}
    BY <1>0, <1>3 DEF MarkRead, Goto, Slot
  <2>. QED
    BY <1>3, <2>1 DEF Moved
<1>4. CASE q = r /\ (PushReceipt(r) \/ PushBackfill(r) \/ ReplyHistory(r))
  <2>1. Finish(q) /\ req[q].op # "chat" /\ (req[q].op # "resume" \/ PushBackfill(q))
    BY <1>4 DEF PushReceipt, PushBackfill, ReplyHistory
  <2>2. req'[q].op = "idle"
    BY <1>0, <2>1 DEF Finish, Idle
  <2>. QED
    BY <2>1, <2>2 DEF Moved
<1>5. CASE q = r /\ Abort(r)
  <2>1. req'[q].op = "idle" /\ ~req[q].live
    BY <1>0, <1>5 DEF Abort, Finish, Idle
  <2>. QED
    BY <1>5, <2>1 DEF Moved
<1>. QED
  BY <1>1, <1>2, <1>3, <1>4, <1>5

\* Whatever the step is.
LEMMA Moves == ASSUME Base, [Next]_vars PROVE \A q \in Requests : Moved(q)
<1>1. SUFFICES ASSUME NEW q \in Requests PROVE Moved(q)
  OBVIOUS
<1>2. ASSUME NEW d \in Devices, NEW a, Presign(d, a) PROVE Moved(q)
  BY <1>2, UntouchedMoved DEF Presign
<1>3. ASSUME (\E d, j : Reconnect(d, j)) \/ (\E i, j, lost : Relay(i, j, lost)) PROVE Moved(q)
  BY <1>3, UntouchedMoved DEF Reconnect, Relay
<1>4. ASSUME NEW d \in Devices, Drop(d) PROVE Moved(q)
  <2>1. req[q] \in Slot
    BY InFlight DEF Base
  <2>2. CASE req[q].dev # d
    BY <1>4, <2>2, UntouchedMoved DEF Drop
  <2>3. CASE req[q].dev = d
    <3>1. req'[q] = [req[q] EXCEPT !.live = FALSE]
      BY <1>4, <2>3 DEF Drop
    <3>2. SlotKept(req[q], req'[q]) /\ conn'[req[q].dev] # "up"
      BY <1>4, <2>1, <2>3, <3>1 DEF SlotKept, Slot, Drop, Up, Base, ClientType
    <3>. QED
      BY <3>2 DEF Moved
  <2>. QED
    BY <2>2, <2>3
<1>5. CASE UNCHANGED vars
  BY <1>5, UntouchedMoved DEF vars
<1>. QED
  BY <1>2, <1>3, <1>4, <1>5, FrameMoved, ChatMoved, ModifyMoved, PullMoved DEF Next

\* What the query of a handler that pulls leaves in its slot.
LEMMA Pulled ==
    ASSUME Base, NEW q \in Requests, SelectPull(q)
    PROVE  LET s == req[q]
               t == req'[q] IN
           \/ t.op = "idle"
           \/ t.op \in {"read", "history"} /\ t.pc = "write"
           \/ /\ s.op = "resume" /\ t.op = "resume" /\ t.pc = "push"
              /\ t.dev = s.dev /\ t.id = s.id /\ t.live = s.live
              /\ t.page = Bodies(First(Missed(me(q), s.id), Page))
<1>1. req \in [Requests -> Slot] /\ req[q] \in Slot
  BY DEF Base, ReqInv
<1>2. ASSUME NEW i, req' = [req EXCEPT ![q].id = i, ![q].pc = "write"]
      PROVE  req'[q].op = req[q].op /\ req'[q].pc = "write"
  BY <1>1, <1>2 DEF Slot
<1>3. ASSUME NEW p, NEW pc, req' = [req EXCEPT ![q].page = p, ![q].pc = pc]
      PROVE  /\ req'[q].op = req[q].op /\ req'[q].pc = pc /\ req'[q].page = p
             /\ req'[q].dev = req[q].dev /\ req'[q].id = req[q].id
             /\ req'[q].live = req[q].live
  BY <1>1, <1>3 DEF Slot
<1>4. Finish(q) => req'[q].op = "idle"
  BY <1>1 DEF Finish, Idle
<1>. DEFINE p == Bodies(First(Missed(me(q), req[q].id), Page))
<1>5. \/ \E i : req[q].op = "read" /\ req' = [req EXCEPT ![q].id = i, ![q].pc = "write"]
      \/ Finish(q)
      \/ req[q].op = "resume" /\ req' = [req EXCEPT ![q].page = p, ![q].pc = "push"]
      \/ \E x : req[q].op = "history" /\ req' = [req EXCEPT ![q].page = x, ![q].pc = "write"]
  BY DEF SelectPull
<1>6. CASE req[q].op = "resume" /\ req' = [req EXCEPT ![q].page = p, ![q].pc = "push"]
  <2>. HIDE DEF p
  <2>1. /\ req'[q].op = "resume" /\ req'[q].pc = "push" /\ req'[q].page = p
        /\ req'[q].dev = req[q].dev /\ req'[q].id = req[q].id /\ req'[q].live = req[q].live
    BY <1>3, <1>6
  <2>. QED
    BY <1>6, <2>1 DEF p
<1>7. CASE \E x : req[q].op = "history" /\ req' = [req EXCEPT ![q].page = x, ![q].pc = "write"]
  <2>1. PICK x : req' = [req EXCEPT ![q].page = x, ![q].pc = "write"]
    BY <1>7
  <2>2. req'[q].op = "history" /\ req'[q].pc = "write"
    BY <1>3, <1>7, <2>1
  <2>. QED
    BY <2>2
<1>8. CASE \E i : req[q].op = "read" /\ req' = [req EXCEPT ![q].id = i, ![q].pc = "write"]
  BY <1>2, <1>8
<1>. HIDE DEF p
<1>. QED
  BY <1>4, <1>5, <1>6, <1>7, <1>8

-----------------------------------------------------------------------------
(* Deleted texts and read receipts *)

\* A page has been read for device d, and what it leaves out stays excused.
Paged(d) ==
    \E r \in Requests :
        LET page == First(Missed(me(r), req[r].id), Page)
            t == req'[r] IN
        /\ req[r].dev = d
        /\ t.op = "resume" /\ t.dev = d /\ t.live /\ t.page = Bodies(page)
        /\ excused'[d] = Unpromised(d, req[r].id, page)

\* Which actions touch stored messages, excuses and connections.
Effects ==
    /\ UNCHANGED rows \/ \E r \in Requests : Insert(r) \/ Write(r) \/ MarkRead(r)
    /\ \A d \in Devices : excused[d] \subseteq excused'[d] \/ Paged(d)
    /\ \A d \in Devices : Up(d)' => (Up(d) /\ at'[d] = at[d]) \/ \E j \in Instances : Reconnect(d, j)

\* What only grows.
Grown == raced \subseteq raced' /\ orphan \subseteq orphan' /\ (unwritten => unwritten')

\* Every step is confined so.
LEMMA EffectsOf == ASSUME Base, [Next]_vars PROVE Effects /\ Grown
<1>0. ASSUME UNCHANGED <<rows, excused, conn, at>> PROVE Effects
  BY <1>0 DEF Effects, Up
<1>1. ASSUME UNCHANGED history PROVE Grown
  BY <1>1 DEF Grown, history
<1>2. ASSUME NEW r, NEW d, NEW s, Arrive(r, d, s) PROVE Effects /\ Grown
  BY <1>0, <1>1, <1>2 DEF Arrive, tables, clients, history
<1>3. ASSUME NEW r \in Requests, Lookup(r) \/ InsertFails(r) \/ link_attachment(r) \/ PushChat(r)
      PROVE  Effects /\ Grown
  BY <1>0, <1>1, <1>3 DEF Lookup, Found, InsertFails, link_attachment, PushChat, tables, clients,
                          history
<1>4. ASSUME NEW r \in Requests,
             \/ Select(r) \/ PushUpdate(r) \/ ReplyHistory(r) \/ PushReceipt(r) \/ PushBackfill(r)
      PROVE  Effects /\ Grown
  BY <1>0, <1>1, <1>4 DEF Select, PushUpdate, ReplyHistory, PushReceipt, PushBackfill, tables,
                          clients, history
<1>5. ASSUME NEW r \in Requests, Insert(r) \/ MarkRead(r) \/ Write(r) PROVE Effects /\ Grown
  <2>1. UNCHANGED <<excused, conn, at>>
    BY <1>5 DEF Insert, MarkRead, Write, clients, history
  <2>2. Grown
    BY <1>5 DEF Insert, MarkRead, Write, history, Grown
  <2>. QED
    BY <1>5, <2>1, <2>2 DEF Effects, Up
<1>6. ASSUME NEW r \in Requests, SelectPull(r) PROVE Effects /\ Grown
  <2>1. UNCHANGED <<rows, conn, at, orphan, raced, unwritten>>
    BY <1>6 DEF SelectPull, tables, clients
  <2>. DEFINE page == First(Missed(me(r), req[r].id), Page)
              e == req[r].dev
  <2>2. req[r] \in Slot /\ req \in [Requests -> Slot] /\ Fits(req[r], rows, conn) /\ e \in Devices
        /\ excused \in [Devices -> SUBSET Ids]
    BY <1>6, InFlight DEF SelectPull, Base, ReqInv, HistoryType, Fits
  <2>3. ASSUME NEW d \in Devices PROVE excused[d] \subseteq excused'[d] \/ Paged(d)
    <3>1. CASE UNCHANGED excused
      BY <3>1
    <3>2. CASE /\ req[r].op = "resume" /\ req[r].live
               /\ req' = [req EXCEPT ![r].page = Bodies(page), ![r].pc = "push"]
               /\ excused' = [excused EXCEPT ![e] = Unpromised(e, req[r].id, page)]
      <4>. HIDE DEF page
      <4>1. req'[r].op = "resume" /\ req'[r].dev = e /\ req'[r].live /\ req'[r].page = Bodies(page)
        BY <2>2, <3>2 DEF Slot
      <4>2. CASE d = e
        BY <2>2, <3>2, <4>1, <4>2 DEF Paged, page
      <4>3. CASE d # e
        BY <2>2, <3>2, <4>3
      <4>. QED
        BY <4>2, <4>3
    <3>. QED
      BY <1>6, <3>1, <3>2 DEF SelectPull
  <2>. QED
    BY <2>1, <2>3 DEF Effects, Up, Grown
<1>7. ASSUME NEW r \in Requests, WriteFails(r) \/ Abort(r) PROVE Effects /\ Grown
  <2>1. UNCHANGED <<rows, excused, conn, at>>
    BY <1>7 DEF WriteFails, Abort, tables, clients
  <2>2. Grown
    BY <1>7 DEF WriteFails, Abort, Grown
  <2>. QED
    BY <1>0, <2>1, <2>2
<1>8. ASSUME NEW d \in Devices, NEW a, Presign(d, a) PROVE Effects /\ Grown
  BY <1>0, <1>1, <1>8 DEF Presign, clients, history
<1>9. ASSUME NEW d \in Devices, Drop(d) PROVE Effects /\ Grown
  <2>1. UNCHANGED <<rows, at>> /\ UNCHANGED history
    BY <1>9 DEF Drop, tables
  <2>2. \A e \in Devices : Up(e)' => Up(e)
    BY <1>9 DEF Drop, Up, Base, ClientType
  <2>. QED
    BY <1>1, <2>1, <2>2 DEF Effects, history
<1>10. ASSUME NEW d \in Devices, NEW j \in Instances, Reconnect(d, j) PROVE Effects /\ Grown
  <2>1. UNCHANGED <<rows, orphan, raced, unwritten>>
    BY <1>10 DEF Reconnect, tables
  <2>2. \A e \in Devices : Up(e)' => (Up(e) /\ at'[e] = at[e]) \/ e = d
    BY <1>10 DEF Reconnect, Up, Base, ClientType
  <2>3. \A e \in Devices : excused[e] \subseteq excused'[e]
    BY <1>10 DEF Reconnect, Base, HistoryType
  <2>. QED
    BY <1>10, <2>1, <2>2, <2>3 DEF Effects, Grown
<1>11. CASE UNCHANGED vars
  BY <1>0, <1>1, <1>11 DEF vars, history
<1>12. ASSUME NEW r, NEW d,
              \/ \E to, t, n, a : Chat(r, d, to, t, n, a)
              \/ \E op, i, t, on : Modify(r, d, op, i, t, on)
              \/ \E op, u : Pull(r, d, op, u)
       PROVE  Effects /\ Grown
  BY <1>2, <1>12 DEF Chat, Modify, Pull
<1>13. ASSUME NEW i \in Instances, NEW j \in Instances, NEW lost \in SUBSET Users, Relay(i, j, lost)
       PROVE  Effects /\ Grown
  <2>1. UNCHANGED <<rows, conn, at, orphan, raced, unwritten>>
    BY <1>13 DEF Relay, tables
  <2>2. \A d \in Devices : excused[d] \subseteq excused'[d]
    BY <1>13, RelayStep
  <2>. QED
    BY <2>1, <2>2 DEF Effects, Grown, Up
<1>. QED
  BY <1>3, <1>4, <1>5, <1>6, <1>7, <1>8, <1>9, <1>10, <1>11, <1>12, <1>13 DEF Next

\* A message that is deleted has no text, or an edit that was past its check wrote it
\* again; and an edit that is past its check of a deleted message is on record.
DelInv ==
    /\ DeletedTextGone
    /\ \A r \in Requests :
           req[r].op = "edit" /\ req[r].pc = "write" /\ rows[req[r].id].deleted
               => req[r].id \in raced

\* Every step keeps deleted texts gone, but for the edits on record.
LEMMA DeletionsKept == ASSUME Base, DelInv, [Next]_vars PROVE DelInv'
<1>0. Step /\ Effects /\ Grown /\ \A q \in Requests : Moved(q)
  BY Steps, EffectsOf, Moves
<1>1. DOMAIN rows = 1 .. Len(rows) /\ DOMAIN rows' = 1 .. Len(rows') /\ Len(rows) \in Nat
      /\ Len(rows') \in Nat
  BY <1>0 DEF Step, RowsGrow, RowsType, Base
\* A message that is deleted after the step was so before, or is written now.
<1>2. ASSUME NEW i \in DOMAIN rows', rows'[i].deleted
      PROVE  \/ i \in DOMAIN rows /\ rows[i].deleted
             \/ \E r \in Requests : Write(r) /\ req[r].op = "delete" /\ i = req[r].id
  <2>1. CASE UNCHANGED rows
    BY <1>2, <2>1
  <2>2. ASSUME NEW r \in Requests, Insert(r) PROVE i \in DOMAIN rows /\ rows[i].deleted
    <3>1. req[r].op = "chat"
      BY <2>2, InFlight DEF Base, Insert
    <3>2. Len(rows') = Len(rows) + 1 /\ ~rows'[Len(rows) + 1].deleted
          /\ \A j \in 1 .. Len(rows) : rows'[j] = rows[j]
      BY <2>2, <3>1, InsertGrows DEF Base
    <3>3. i # Len(rows) + 1
      BY <1>2, <3>2
    <3>4. i \in 1 .. Len(rows)
      BY <1>1, <3>2, <3>3
    <3>. QED
      BY <1>1, <1>2, <3>2, <3>4
  <2>3. ASSUME NEW r \in Requests, Write(r)
        PROVE  \/ i \in DOMAIN rows /\ rows[i].deleted
               \/ req[r].op = "delete" /\ i = req[r].id
    <3>1. /\ Len(rows') = Len(rows) /\ \A j \in (DOMAIN rows) \ {req[r].id} : rows'[j] = rows[j]
          /\ req[r].op = "edit" => rows'[req[r].id].deleted = rows[req[r].id].deleted
          /\ req[r].op = "react" => rows' = rows
      BY <2>3, WriteGrows DEF Base
    <3>2. req[r].op \in {"edit", "delete", "react"}
      BY <2>3 DEF Write
    <3>. QED
      BY <1>1, <1>2, <3>1, <3>2
  <2>4. ASSUME NEW r \in Requests, MarkRead(r) PROVE i \in DOMAIN rows /\ rows[i].deleted
    BY <1>1, <1>2, <2>4, MarkGrows DEF Base
  <2>. QED
    BY <1>0, <2>1, <2>2, <2>3, <2>4 DEF Effects
<1>3. ASSUME NEW i \in DOMAIN rows', rows'[i].deleted, rows'[i].body # Blank
      PROVE  i \in raced'
  <2>1. ASSUME i \in DOMAIN rows, rows[i].deleted, rows[i].body # Blank PROVE i \in raced'
    BY <1>0, <2>1 DEF DelInv, DeletedTextGone, Grown
  <2>2. ASSUME NEW r \in Requests, Write(r) PROVE i \in raced'
    <3>1. /\ \A j \in (DOMAIN rows) \ {req[r].id} : rows'[j] = rows[j]
          /\ req[r].op = "edit" => rows'[req[r].id].deleted = rows[req[r].id].deleted
          /\ req[r].op = "delete" => rows'[req[r].id].body = Blank
          /\ req[r].op = "react" => rows' = rows
          /\ Len(rows') = Len(rows)
      BY <2>2, WriteGrows DEF Base
    <3>2. CASE req[r].op = "delete" /\ i = req[r].id
      BY <1>3, <3>1, <3>2
    <3>3. CASE req[r].op = "edit" /\ i = req[r].id
      BY <1>0, <1>3, <2>2, <3>1, <3>3 DEF DelInv, Write, Grown
    <3>4. CASE i # req[r].id \/ req[r].op = "react"
      BY <1>1, <1>3, <2>1, <3>1, <3>4
    <3>. QED
      BY <2>2, <3>2, <3>3, <3>4 DEF Write
  <2>3. CASE ~\E r \in Requests : Write(r)
    <3>1. i \in DOMAIN rows /\ rows[i].deleted
      BY <1>2, <1>3, <2>3
    <3>2. CASE UNCHANGED rows
      BY <1>3, <2>1, <3>1, <3>2
    <3>3. ASSUME NEW r \in Requests, Insert(r) PROVE i \in raced'
      <4>1. req[r].op = "chat"
        BY <3>3, InFlight DEF Base, Insert
      <4>2. rows'[i] = rows[i]
        BY <1>1, <3>1, <3>3, <4>1, InsertGrows DEF Base
      <4>. QED
        BY <1>3, <2>1, <3>1, <4>2
    <3>4. ASSUME NEW r \in Requests, MarkRead(r) PROVE i \in raced'
      BY <1>3, <2>1, <3>1, <3>4, MarkGrows DEF Base
    <3>. QED
      BY <1>0, <2>3, <3>2, <3>3, <3>4 DEF Effects
  <2>. QED
    BY <2>2, <2>3
<1>4. ASSUME NEW q \in Requests, req'[q].op = "edit", req'[q].pc = "write",
             rows'[req'[q].id].deleted
      PROVE  req'[q].id \in raced'
  <2>1. req'[q].id \in DOMAIN rows'
    BY <1>0, <1>4 DEF Step, Base, ReqInv, Fits
  <2>2. \/ req[q].op = "edit" /\ req[q].pc = "write" /\ req'[q].id = req[q].id
        \/ Select(q) /\ Allowed(q) /\ req[q].op = "edit" /\ req'[q].id = req[q].id
    <3>1. SelectPull(q) => req'[q].op # "edit"
      BY Pulled
    <3>. QED
      BY <1>0, <1>4, <3>1 DEF Moved, SlotKept
  <2>3. CASE req[q].op = "edit" /\ req[q].pc = "write" /\ req'[q].id = req[q].id
    <3>1. CASE rows[req[q].id].deleted
      BY <1>0, <2>3, <3>1 DEF DelInv, Grown
    <3>2. ASSUME NEW r \in Requests, Write(r), req[r].op = "delete", req'[q].id = req[r].id
          PROVE  req'[q].id \in raced'
      <4>1. raced' = raced \cup {j \in {req[r].id} : \E p \in Requests : req[p].op = "edit"
                                                /\ req[p].pc = "write" /\ req[p].id = j}
        BY <3>2 DEF Write
      <4>. QED
        BY <2>3, <3>2, <4>1
    <3>. QED
      BY <1>2, <1>4, <2>1, <2>3, <3>1, <3>2
  <2>4. CASE Select(q) /\ Allowed(q) /\ req[q].op = "edit" /\ req'[q].id = req[q].id
    BY <1>4, <2>4 DEF Allowed, Select, tables
  <2>. QED
    BY <2>2, <2>3, <2>4
<1>. QED
  BY <1>3, <1>4 DEF DelInv, DeletedTextGone

\* A deletion takes the text with it whatever else is going on, except where an edit that
\* had passed its check before the deletion writes after it (handle_ws_delete and
\* handle_ws_edit).
THEOREM DeletedTextsGone == Spec => []DeletedTextGone
<1>1. Init => DelInv
  BY DEF Init, DelInv, DeletedTextGone, Idle
<1>2. Base /\ DelInv /\ [Next]_vars => DelInv'
  BY DeletionsKept
<1>3. DelInv => DeletedTextGone
  BY DEF DelInv
<1>. QED
  BY <1>1, <1>2, <1>3, Invariance, PTL DEF Spec

\* With R for rows and w for unwritten: u has read what v sent up to message n.
ReadUpTo(R, w, u, v, n) ==
    /\ n <= Len(R)
    /\ w \/ \A i \in DOMAIN R : R[i].to = u /\ R[i].from = v /\ i <= n => R[i].read

\* What a receipt told is true, and what one on the bus or about to be pushed will tell; and
\* a reader that is about to mark messages read has looked at stored ones.
ReadInv ==
    /\ \A d \in Devices, u \in Users : ReadUpTo(rows, unwritten, u, Owner[d], receipt[d][u])
    /\ \A r \in Requests : req[r].op = "read" /\ req[r].pc = "push" =>
           ReadUpTo(rows, unwritten, Owner[req[r].dev], req[r].peer, req[r].id)
    /\ \A i, j \in Instances : \A f \in Range(bus[i][j]) : f.by # None =>
           \A v \in f.to : ReadUpTo(rows, unwritten, f.by, v, f.upTo)
    /\ \A r \in Requests : req[r].op = "read" /\ req[r].pc = "write" => req[r].id <= Len(rows)

\* What has been read up to a stored message stays so as messages come.
LEMMA ReadStays ==
    ASSUME Base, Step, Grown, NEW u, NEW v, NEW n \in Nat,
           ReadUpTo(rows, unwritten, u, v, n)
    PROVE  ReadUpTo(rows', unwritten', u, v, n)
<1>1. DOMAIN rows = 1 .. Len(rows) /\ DOMAIN rows' = 1 .. Len(rows') /\ Len(rows) \in Nat
      /\ Len(rows') \in Nat /\ Len(rows) <= Len(rows') /\ n <= Len(rows)
  BY DEF Step, RowsGrow, RowsType, Base, ReadUpTo
<1>2. SUFFICES ASSUME ~unwritten', NEW i \in DOMAIN rows', rows'[i].to = u, rows'[i].from = v,
                      i <= n
               PROVE  rows'[i].read
  BY <1>1 DEF ReadUpTo
<1>3. i \in 1 .. Len(rows)
  BY <1>1, <1>2
<1>4. rows[i].to = u /\ rows[i].from = v /\ (rows[i].read => rows'[i].read)
  BY <1>2, <1>3 DEF Step, RowsGrow
<1>5. ~unwritten
  BY <1>2 DEF Grown
<1>6. rows[i].read
  BY <1>1, <1>2, <1>3, <1>4, <1>5 DEF ReadUpTo
<1>. QED
  BY <1>4, <1>6

\* A receipt is told after everything inbound has been marked.
LEMMA ReceiptsKept == ASSUME Base, ReadInv, [Next]_vars PROVE ReadInv'
<1>0. Step /\ Effects /\ Grown /\ \A q \in Requests : Moved(q)
  BY Steps, EffectsOf, Moves
<1>1. DOMAIN rows = 1 .. Len(rows) /\ DOMAIN rows' = 1 .. Len(rows') /\ Len(rows) \in Nat
      /\ Len(rows') \in Nat /\ Len(rows) <= Len(rows')
  BY <1>0 DEF Step, RowsGrow, RowsType, Base
\* What a handler pushes, and what a frame on the bus carries, stays true.
<1>5. ASSUME NEW r \in Requests, PushReceipt(r)
      PROVE  ReadUpTo(rows', unwritten', me(r), req[r].peer, req[r].id)
  <2>. DEFINE k == req[r].id
  <2>1. req[r].op = "read" /\ req[r].pc = "push" /\ k \in Nat
    BY <1>5, PushReceiptStep, MessagesConstants DEF MessagesConstants
  <2>2. ReadUpTo(rows, unwritten, me(r), req[r].peer, k)
    BY <2>1 DEF ReadInv, me
  <2>. HIDE DEF k
  <2>3. ReadUpTo(rows', unwritten', me(r), req[r].peer, k)
    BY <1>0, <2>1, <2>2, ReadStays
  <2>. QED
    BY <2>3 DEF k
<1>6. ASSUME NEW i \in Instances, NEW j \in Instances, NEW f \in Range(bus[i][j]), f.by # None,
             NEW v \in f.to
      PROVE  ReadUpTo(rows', unwritten', f.by, v, f.upTo)
  <2>1. f \in Frame
    <3>1. bus[i][j] \in Seq(Frame)
      BY DEF Base, ClientType
    <3>. QED
      BY <3>1 DEF Range
  <2>2. f.upTo \in Nat
    BY <2>1, MessagesConstants DEF Frame, MessagesConstants
  <2>3. ReadUpTo(rows, unwritten, f.by, v, f.upTo)
    BY <1>6 DEF ReadInv
  <2>. QED
    BY <1>0, <2>2, <2>3, ReadStays
<1>2. ASSUME NEW d \in Devices, NEW u \in Users
      PROVE  ReadUpTo(rows', unwritten', u, Owner[d], receipt'[d][u])
  <2>. DEFINE n == receipt[d][u]
              v == Owner[d]
  <2>1. n \in Nat
    <3>1. receipt \in [Devices -> [Users -> 0 .. MaxRows]]
      BY DEF Base, ClientType
    <3>. QED
      BY <3>1
  <2>2. ReadUpTo(rows, unwritten, u, v, n)
    BY DEF ReadInv
  <2>. HIDE DEF n
  <2>3. ReadUpTo(rows', unwritten', u, v, n)
    BY <1>0, <2>1, <2>2, ReadStays
  <2>4. CASE receipt'[d][u] = receipt[d][u]
    BY <2>3, <2>4 DEF n
  <2>5. ASSUME NEW r \in Requests, PushReceipt(r), u = me(r), Owner[d] = req[r].peer,
               receipt'[d][u] = req[r].id
        PROVE  ReadUpTo(rows', unwritten', u, v, receipt'[d][u])
    BY <1>5, <2>5
  <2>6. ASSUME NEW i \in Instances, NEW j \in Instances, NEW f \in Range(bus[i][j]),
               u = f.by, Owner[d] \in f.to, receipt'[d][u] = f.upTo
        PROVE  ReadUpTo(rows', unwritten', u, v, receipt'[d][u])
    <3>1. f.by # None
      BY <2>6, MessagesConstants DEF MessagesConstants
    <3>. QED
      BY <1>6, <2>6, <3>1
  <2>7. \/ receipt'[d][u] = receipt[d][u]
        \/ \E r \in Requests : /\ PushReceipt(r) /\ u = me(r) /\ Owner[d] = req[r].peer
                               /\ receipt'[d][u] = req[r].id
        \/ \E i, j \in Instances : \E f \in Range(bus[i][j]) :
               u = f.by /\ Owner[d] \in f.to /\ receipt'[d][u] = f.upTo
    BY <1>0 DEF Step, ClientsGo, Told
  <2>. QED
    BY <2>4, <2>5, <2>6, <2>7
<1>7. ASSUME NEW i \in Instances, NEW j \in Instances, NEW f \in Range(bus'[i][j]), f.by # None,
             NEW v \in f.to
      PROVE  ReadUpTo(rows', unwritten', f.by, v, f.upTo)
  <2>1. CASE f \in Range(bus[i][j])
    BY <1>6, <1>7, <2>1
  <2>2. ASSUME NEW r \in Requests, PushReceipt(r), f = Receipt(req[r].peer, me(r), req[r].id)
        PROVE  ReadUpTo(rows', unwritten', f.by, v, f.upTo)
    <3>1. f.to = {req[r].peer} /\ f.by = me(r) /\ f.upTo = req[r].id
      BY <2>2, PushReceiptStep, FramesAre
    <3>. QED
      BY <1>5, <1>7, <2>2, <3>1
  <2>. QED
    BY <1>0, <1>7, <2>1, <2>2 DEF Step, ClientsGo, Sent
<1>3. ASSUME NEW q \in Requests, req'[q].op = "read", req'[q].pc = "push"
      PROVE  ReadUpTo(rows', unwritten', Owner[req'[q].dev], req'[q].peer, req'[q].id)
  <2>. DEFINE u == Owner[req[q].dev]
              v == req[q].peer
              n == req[q].id
  <2>0. n \in Nat
    <3>1. req[q] \in Slot
      BY InFlight DEF Base
    <3>. QED
      BY <3>1 DEF Slot
  <2>1. \/ SlotKept(req[q], req'[q])
        \/ /\ MarkRead(q) \/ WriteFails(q)
           /\ req[q].op = "read" /\ req[q].pc = "write"
           /\ req'[q].dev = req[q].dev /\ req'[q].peer = req[q].peer /\ req'[q].id = req[q].id
    <3>1. SelectPull(q) => ~(req'[q].op = "read" /\ req'[q].pc = "push")
      BY Pulled
    <3>2. Select(q) => req[q].op # "read"
      BY DEF Select
    <3>. QED
      BY <1>0, <1>3, <3>1, <3>2 DEF Moved
  <2>2. req'[q].dev = req[q].dev /\ req'[q].peer = v /\ req'[q].id = n
    BY <2>1 DEF SlotKept
  <2>3. CASE SlotKept(req[q], req'[q])
    <3>1. ReadUpTo(rows, unwritten, u, v, n)
      BY <1>3, <2>3 DEF ReadInv, SlotKept
    <3>. HIDE DEF n, u, v
    <3>2. ReadUpTo(rows', unwritten', u, v, n)
      BY <1>0, <2>0, <3>1, ReadStays
    <3>. QED
      BY <2>2, <3>2 DEF u, v, n
  <2>4. CASE req[q].op = "read" /\ req[q].pc = "write" /\ (MarkRead(q) \/ WriteFails(q))
    <3>1. n <= Len(rows')
      BY <1>1, <2>0, <2>4 DEF ReadInv
    <3>2. CASE WriteFails(q)
      BY <2>2, <3>1, <3>2 DEF WriteFails, ReadUpTo
    <3>3. CASE MarkRead(q)
      <4>1. ASSUME NEW i \in DOMAIN rows', rows'[i].to = u, rows'[i].from = v PROVE rows'[i].read
        <5>1. /\ Len(rows') = Len(rows)
              /\ \A j \in DOMAIN rows : j \in Inbound(me(q), req[q].peer) => rows'[j].read
          BY <3>3, MarkGrows DEF Base
        <5>2. rows[i].to = u /\ rows[i].from = v /\ i \in DOMAIN rows
          BY <1>0, <1>1, <4>1, <5>1 DEF Step, RowsGrow
        <5>. QED
          BY <5>1, <5>2 DEF Inbound, me
      <4>. QED
        BY <2>2, <3>1, <4>1 DEF ReadUpTo
    <3>. QED
      BY <2>4, <3>2, <3>3
  <2>. QED
    BY <2>1, <2>3, <2>4
<1>4. ASSUME NEW q \in Requests, req'[q].op = "read", req'[q].pc = "write"
      PROVE  req'[q].id <= Len(rows')
  <2>0. req'[q].id \in Nat
    <3>1. req'[q] \in Slot
      BY <1>0 DEF Step, Base, ReqInv
    <3>. QED
      BY <3>1 DEF Slot
  <2>1. SlotKept(req[q], req'[q]) \/ SelectPull(q)
    <3>1. req[q].op = "read" => ~(Select(q) /\ Allowed(q))
      BY DEF Select
    <3>. QED
      BY <1>0, <1>4, <3>1 DEF Moved
  <2>2. req'[q].id <= Len(rows)
    BY <1>4, <2>1, SelectPullStep DEF SlotKept, ReadInv
  <2>. QED
    BY <1>1, <2>0, <2>2
<1>. QED
  BY <1>2, <1>3, <1>4, <1>7 DEF ReadInv

\* A receipt names only messages that really are marked read, whatever arrives between the
\* query for the newest and the update, unless a write failed (mark_conversation_read).
THEOREM ReceiptsTruthful == Spec => []ReceiptTruthful
<1>1. Init => ReadInv
  <2>. SUFFICES ASSUME Init PROVE ReadInv
    OBVIOUS
  <2>1. Len(rows) = 0 /\ DOMAIN rows = {}
    BY DEF Init
  <2>2. \A d \in Devices, u \in Users : receipt[d][u] = 0
    BY DEF Init
  <2>3. \A r \in Requests : req[r].op = "idle"
    BY DEF Init, Idle
  <2>4. \A i, j \in Instances : Range(bus[i][j]) = {}
    BY DEF Init, Range
  <2>. QED
    BY <2>1, <2>2, <2>3, <2>4 DEF ReadInv, ReadUpTo
<1>2. Base /\ ReadInv /\ [Next]_vars => ReadInv'
  BY ReceiptsKept
<1>3. Base /\ ReadInv => ReceiptTruthful
  <2>. SUFFICES ASSUME Base, ReadInv, NEW d \in Devices, NEW i \in DOMAIN rows,
                       rows[i].from = Owner[d], i <= receipt[d][rows[i].to]
                PROVE  rows[i].read \/ unwritten
    BY DEF ReceiptTruthful
  <2>1. rows[i].to \in Users
    <3>1. rows[i] \in Message
      BY DEF Base, RowsType
    <3>. QED
      BY <3>1 DEF Message
  <2>. QED
    BY <2>1 DEF ReadInv, ReadUpTo
<1>. QED
  BY <1>1, <1>2, <1>3, Invariance, PTL DEF Spec

-----------------------------------------------------------------------------
(* No message is silently missing *)

\* Messages on their way: a handler that still has to push them to both parties.
Carrying ==
    {i \in DOMAIN rows : \E r \in Requests :
        /\ req[r].op = "chat" /\ req[r].id = i
        /\ me(r) = rows[i].from /\ req[r].peer = rows[i].to}

\* Message i is shown on d, or is on its way to it, or its handler was aborted.
Reaches(d, i) ==
    view[d][i] # Unseen \/ i \in orphan \cup Carrying \cup Queued(d) \cup Resumed(d)

\* What a connected device does not show is on its way, aborted or excused.
GapInv ==
    \A d \in Devices, i \in DOMAIN rows :
        Up(d) /\ involves(rows[i], Owner[d]) => Reaches(d, i) \/ i \in excused[d]

\* A message that reaches a connected device does so after a step, or a relay loses it.
LEMMA ReachesStays ==
    ASSUME Base, [Next]_vars, NEW d \in Devices, Up(d), Up(d)', NEW i \in DOMAIN rows,
           involves(rows[i], Owner[d]), Reaches(d, i)
    PROVE  Reaches(d, i)' \/ i \in excused'[d]
<1>0. Step /\ Effects /\ Grown /\ \A q \in Requests : Moved(q)
  BY Steps, EffectsOf, Moves
<1>1. i \in DOMAIN rows' /\ rows'[i].from = rows[i].from /\ rows'[i].to = rows[i].to /\ i \in Ids
      /\ i # 0
  <2>1. i \in 1 .. Len(rows) /\ Len(rows) \in 0 .. MaxRows /\ MaxRows \in Nat
    BY MessagesConstants DEF Base, RowsType, MessagesConstants
  <2>. QED
    BY <1>0, <2>1 DEF Step, RowsGrow, RowsType, Ids
<1>2. at'[d] = at[d] /\ at[d] \in Instances
  <2>1. \A j : ~Reconnect(d, j)
    BY DEF Reconnect, Up
  <2>. QED
    BY <1>0, <2>1 DEF Effects, Base, ClientType
<1>3. CASE view[d][i] # Unseen
  BY <1>0, <1>1, <1>3 DEF Step, ClientsGo, Reaches
<1>4. CASE i \in orphan
  BY <1>0, <1>4 DEF Grown, Reaches
\* Its handler goes on, pushes it, or is aborted.
<1>5. ASSUME NEW q \in Requests, req[q].op = "chat", req[q].id = i, me(q) = rows[i].from,
             req[q].peer = rows[i].to
      PROVE  Reaches(d, i)'
  <2>1. req[q].pc \in {"link", "push"}
    <3>1. Fits(req[q], rows, conn)
      BY InFlight DEF Base
    <3>. QED
      BY <1>1, <1>5, <3>1 DEF Fits
  <2>2. \/ req'[q].op = "chat" /\ req'[q].id = i /\ req'[q].dev = req[q].dev
           /\ req'[q].peer = req[q].peer
        \/ PushChat(q) \/ Abort(q)
    <3>1. ~Select(q) /\ ~SelectPull(q)
      BY <1>5 DEF Select, SelectPull
    <3>. QED
      BY <1>0, <1>5, <2>1, <3>1 DEF Moved, SlotKept
  <2>3. CASE req'[q].op = "chat" /\ req'[q].id = i /\ req'[q].dev = req[q].dev
             /\ req'[q].peer = req[q].peer
    BY <1>1, <1>5, <2>3 DEF Reaches, Carrying, me
  <2>4. CASE PushChat(q)
    <3>1. Owner[d] \in {req[q].peer, me(q)}
      BY <1>5 DEF involves
    <3>2. view'[d][i] # Unseen \/ i \in Queued(d)'
      BY <1>5, <2>4, <3>1, PushChatStep
    <3>. QED
      BY <3>2 DEF Reaches
  <2>5. CASE Abort(q)
    BY <1>1, <1>5, <2>5 DEF Abort, Reaches
  <2>. QED
    BY <2>2, <2>3, <2>4, <2>5
\* Its frame stays on the bus, arrives, or is lost.
<1>6. ASSUME NEW k \in Instances, NEW f \in Range(bus[k][at[d]]), i \in DOMAIN f.texts,
             Owner[d] \in f.to, ~f.update
      PROVE  Reaches(d, i)' \/ i \in excused'[d]
  <2>1. CASE f \in Range(bus'[k][at'[d]])
    BY <1>1, <1>6, <2>1 DEF Queued, Reaches
  <2>2. ASSUME NEW lost \in SUBSET Users, Relay(k, at[d], lost), f = Head(bus[k][at[d]])
        PROVE  Reaches(d, i)' \/ i \in excused'[d]
    <3>1. view'[d][i] # Unseen \/ i \in excused'[d]
      BY <1>2, <1>6, <2>2, RelayStep
    <3>. QED
      BY <3>1 DEF Reaches
  <2>. QED
    BY <1>0, <1>2, <2>1, <2>2 DEF Step, ClientsGo, Taken
\* The page it is in is pushed.
<1>7. ASSUME NEW q \in Requests, req[q].op = "resume", req[q].dev = d, req[q].live,
             i \in DOMAIN req[q].page
      PROVE  Reaches(d, i)'
  <2>1. req[q].pc = "push"
    <3>1. Fits(req[q], rows, conn)
      BY InFlight DEF Base
    <3>2. req[q].page # <<>>
      BY <1>7
    <3>. QED
      BY <1>7, <3>1, <3>2 DEF Fits
  <2>2. (SlotKept(req[q], req'[q]) /\ req'[q].live) \/ PushBackfill(q)
    <3>1. ~Select(q) /\ ~SelectPull(q)
      BY <2>1 DEF Select, SelectPull
    <3>2. Moved(q) /\ conn'[req[q].dev] = "up"
      BY <1>0, <1>7 DEF Up
    <3>3. ~MarkRead(q) /\ ~WriteFails(q)
      BY <2>1 DEF MarkRead, WriteFails
    <3>. QED
      BY <1>7, <2>1, <3>1, <3>2, <3>3 DEF Moved
  <2>3. CASE SlotKept(req[q], req'[q]) /\ req'[q].live
    BY <1>1, <1>7, <2>3 DEF SlotKept, Resumed, Reaches
  <2>4. CASE PushBackfill(q)
    <3>1. view'[d][i] # Unseen \/ i \in Queued(d)'
      BY <1>7, <2>4, PushBackfillStep DEF me
    <3>. QED
      BY <3>1 DEF Reaches
  <2>. QED
    BY <2>2, <2>3, <2>4
<1>. QED
  BY <1>3, <1>4, <1>5, <1>6, <1>7 DEF Reaches, Carrying, Queued, Resumed

\* A message that is new is on its way.
LEMMA NewReaches ==
    ASSUME Base, [Next]_vars, NEW i \in DOMAIN rows', i \notin DOMAIN rows, NEW d
    PROVE  Reaches(d, i)'
<1>0. Step /\ Effects
  BY Steps, EffectsOf
<1>1. DOMAIN rows = 1 .. Len(rows) /\ DOMAIN rows' = 1 .. Len(rows') /\ Len(rows) \in Nat
      /\ Len(rows') \in Nat
  BY <1>0 DEF Step, RowsGrow, RowsType, Base
<1>2. PICK r \in Requests : Insert(r)
  <2>1. ASSUME NEW r \in Requests, Write(r) PROVE FALSE
    BY <1>1, <2>1, WriteGrows DEF Base
  <2>2. ASSUME NEW r \in Requests, MarkRead(r) PROVE FALSE
    BY <1>1, <2>2, MarkGrows DEF Base
  <2>. QED
    BY <1>0, <2>1, <2>2 DEF Effects
<1>3. req[r] \in Slot /\ req[r].op = "chat" /\ req \in [Requests -> Slot]
  BY <1>2, InFlight DEF Base, Insert, ReqInv
<1>4. Len(rows') = Len(rows) + 1 /\ rows'[Len(rows) + 1].from = me(r)
      /\ rows'[Len(rows) + 1].to = req[r].peer
  BY <1>2, <1>3, InsertGrows DEF Base
<1>5. i = Len(rows) + 1
  BY <1>1, <1>4
<1>6. req'[r].op = "chat" /\ req'[r].id = Len(rows) + 1 /\ req'[r].dev = req[r].dev
      /\ req'[r].peer = req[r].peer
  BY <1>2, <1>3 DEF Insert, Slot
<1>. QED
  BY <1>4, <1>5, <1>6 DEF Reaches, Carrying, me

\* Every step keeps each gap of a device explained.
LEMMA GapsKept == ASSUME Base, GapInv, [Next]_vars PROVE GapInv'
<1>0. Step /\ Effects
  BY Steps, EffectsOf
<1>1. /\ DOMAIN rows = 1 .. Len(rows) /\ DOMAIN rows' = 1 .. Len(rows') /\ Len(rows) \in Nat
      /\ Len(rows') \in Nat /\ DOMAIN rows' \subseteq Ids
      /\ \A i \in DOMAIN rows : i \in DOMAIN rows' /\ rows'[i].from = rows[i].from
                                /\ rows'[i].to = rows[i].to
  BY <1>0, MessagesConstants DEF Step, RowsGrow, RowsType, Base, Ids, MessagesConstants
<1>2. SUFFICES ASSUME NEW d \in Devices, NEW i \in DOMAIN rows', Up(d)', involves(rows'[i], Owner[d])
               PROVE  Reaches(d, i)' \/ i \in excused'[d]
  BY DEF GapInv
<1>3. CASE i \notin DOMAIN rows
  BY <1>3, NewReaches
<1>4. ASSUME NEW j \in Instances, Reconnect(d, j) PROVE i \in excused'[d]
  <2>1. excused'[d] = excused[d] \cup DOMAIN rows /\ rows' = rows
    BY <1>4 DEF Reconnect, Base, HistoryType, tables
  <2>. QED
    BY <2>1
<1>5. CASE i \in DOMAIN rows /\ Up(d)
  <2>1. involves(rows[i], Owner[d])
    BY <1>1, <1>2, <1>5 DEF involves
  <2>2. CASE Reaches(d, i)
    BY <1>2, <1>5, <2>1, <2>2, ReachesStays
  <2>3. CASE i \in excused[d] /\ excused[d] \subseteq excused'[d]
    BY <2>3
  <2>4. CASE i \in excused[d] /\ Paged(d)
    <3>1. PICK r \in Requests :
              /\ req[r].dev = d
              /\ req'[r].op = "resume" /\ req'[r].dev = d /\ req'[r].live
              /\ req'[r].page = Bodies(First(Missed(me(r), req[r].id), Page))
              /\ excused'[d] = Unpromised(d, req[r].id, First(Missed(me(r), req[r].id), Page))
      BY <2>4 DEF Paged
    <3>. DEFINE is == Missed(me(r), req[r].id)
                page == First(is, Page)
    <3>2. is \subseteq 1 .. Len(rows) /\ Page \in Nat \ {0}
      BY <1>1, MessagesConstants DEF Missed, MessagesConstants
    <3>3. req[r].id \in Nat /\ i \in Nat
      <4>1. req[r] \in Slot
        BY InFlight DEF Base
      <4>. QED
        BY <1>1, <4>1, MessagesConstants DEF Slot, MessagesConstants
    <3>4. i > req[r].id => i \in is
      BY <1>5, <2>1, <3>1 DEF Missed, me
    <3>. HIDE DEF is
    <3>5. ASSUME i \in is, i \notin page PROVE Cardinality(page) = Page /\ i > Max(page)
      BY <1>1, <3>2, <3>5, FirstIs
    <3>. HIDE DEF page
    <3>6. CASE i \in page
      <4>1. i \in DOMAIN req'[r].page
        BY <3>1, <3>6 DEF Bodies, page, is
      <4>. QED
        BY <1>1, <3>1, <4>1 DEF Resumed, Reaches
    <3>7. CASE i \notin page
      <4>1. i \in Unpromised(d, req[r].id, page)
        BY <2>4, <3>3, <3>4, <3>5, <3>7 DEF Unpromised
      <4>. QED
        BY <3>1, <4>1 DEF page, is
    <3>. QED
      BY <3>6, <3>7
  <2>. QED
    BY <1>0, <1>5, <2>1, <2>2, <2>3, <2>4 DEF GapInv, Effects
<1>. QED
  BY <1>0, <1>2, <1>3, <1>4, <1>5 DEF Effects

\* A connected device shows every message of its account but those on their way (with their
\* handler, between two instances, or in the page it resumed for), those whose handler was
\* aborted between the insert and the push, those whose frame was lost between two instances
\* and, after it reconnected, those stored before that lie at or below its cursor, past a
\* full page, or have not been asked for (handle_ws_chat, fanout.rs and backfill_messages).
THEOREM NoGapIsSilent == Spec => []NoSilentGap
<1>1. Init => GapInv
  <2>. SUFFICES ASSUME Init PROVE GapInv
    OBVIOUS
  <2>1. DOMAIN rows = {}
    BY DEF Init
  <2>. QED
    BY <2>1 DEF GapInv
<1>2. Base /\ GapInv /\ [Next]_vars => GapInv'
  BY GapsKept
<1>3. GapInv => NoSilentGap
  <2>1. Carrying \subseteq Carried
    BY DEF Carrying, Carried
  <2>. QED
    BY <2>1 DEF GapInv, NoSilentGap, Reaches
<1>. QED
  BY <1>1, <1>2, <1>3, Invariance, PTL DEF Spec

-----------------------------------------------------------------------------
(* Retries *)

\* The handlers that found no message of u with nonce n and are about to store one.
Storing(u, n) ==
    {q \in Requests : req[q].pc = "insert" /\ me(q) = u /\ req[q].nonce = n}

\* What is stored and what is about to be are no more than the handlers.
CopyInv ==
    \A u \in Users, n \in Nonces \ Unread :
        Cardinality(Copies(u, n)) + Cardinality(Storing(u, n)) <= Cardinality(Requests)

\* Slot t is not about to store a message with a nonce, or s was about to store the same.
NothingNew(s, t) ==
    t.pc = "insert" /\ t.nonce # None => s.pc = "insert" /\ t.dev = s.dev /\ t.nonce = s.nonce

\* A slot that ends, or goes on to another place, is about to store nothing new.
LEMMA LeavesInsert ==
    ASSUME req \in [Requests -> Slot], NEW r \in Requests, NEW q \in Requests,
           \/ Finish(r)
           \/ \E pc : pc # "insert" /\ Goto(r, pc)
           \/ \E i, pc : pc # "insert" /\ req' = [req EXCEPT ![r].id = i, ![r].pc = pc]
           \/ \E p, pc : pc # "insert" /\ req' = [req EXCEPT ![r].page = p, ![r].pc = pc]
    PROVE  NothingNew(req[q], req'[q])
<1>1. req[r] \in Slot
  OBVIOUS
<1>2. CASE q # r
  BY <1>2 DEF NothingNew, Finish, Goto
<1>3. CASE q = r /\ Finish(r)
  BY <1>3 DEF NothingNew, Finish, Idle
<1>4. ASSUME q = r, NEW pc, pc # "insert", Goto(r, pc) PROVE NothingNew(req[q], req'[q])
  BY <1>1, <1>4 DEF NothingNew, Goto, Slot
<1>5. ASSUME q = r, NEW i, NEW pc, pc # "insert", req' = [req EXCEPT ![r].id = i, ![r].pc = pc]
      PROVE  NothingNew(req[q], req'[q])
  BY <1>1, <1>5 DEF NothingNew, Slot
<1>6. ASSUME q = r, NEW p, NEW pc, pc # "insert", req' = [req EXCEPT ![r].page = p, ![r].pc = pc]
      PROVE  NothingNew(req[q], req'[q])
  BY <1>1, <1>6 DEF NothingNew, Slot
<1>. QED
  BY <1>2, <1>3, <1>4, <1>5, <1>6

\* Only a lookup that finds nothing sets out to store a message with a nonce.
LEMMA NewStoring ==
    ASSUME Base, [Next]_vars, NEW q \in Requests
    PROVE  NothingNew(req[q], req'[q]) \/ (Lookup(q) /\ Goto(q, "insert"))
<1>0. req \in [Requests -> Slot] /\ req[q] \in Slot
  BY DEF Base, ReqInv
<1>1. ASSUME NEW r \in Requests, NEW d, NEW s \in Slot, s.pc # "insert" \/ s.nonce = None,
             Arrive(r, d, s)
      PROVE  NothingNew(req[q], req'[q])
  <2>1. req' = [req EXCEPT ![r] = [s EXCEPT !.dev = d, !.at = at[d], !.live = TRUE]]
    BY <1>1 DEF Arrive
  <2>2. [s EXCEPT !.dev = d, !.at = at[d], !.live = TRUE].pc = s.pc
        /\ [s EXCEPT !.dev = d, !.at = at[d], !.live = TRUE].nonce = s.nonce
    BY DEF Slot
  <2>3. CASE q = r
    BY <1>0, <1>1, <2>1, <2>2, <2>3 DEF NothingNew
  <2>4. CASE q # r
    BY <1>0, <2>1, <2>4 DEF NothingNew
  <2>. QED
    BY <2>3, <2>4
<1>2. ASSUME NEW r \in Requests, NEW d \in Devices,
             \/ \E to \in Users, t \in Texts, n \in Nonces \cup {None}, a \in Atts \cup {None} :
                  Chat(r, d, to, t, n, a)
             \/ \E i \in Ids : \/ \E t \in Texts : Modify(r, d, "edit", i, t, FALSE)
                               \/ Modify(r, d, "delete", i, None, FALSE)
                               \/ \E on \in BOOLEAN : Modify(r, d, "react", i, None, on)
             \/ \E op \in {"read", "resume", "history"}, u \in Users : Pull(r, d, op, u)
      PROVE  NothingNew(req[q], req'[q])
  <2>0. Idle \in Slot /\ Ids \subseteq 0 .. MaxRows /\ Cursor(d) \in 0 .. MaxRows
    BY IdleFits, CursorIs, MessagesConstants DEF Ids, MessagesConstants, Base
  <2>1. ASSUME NEW to \in Users, NEW t \in Texts, NEW n \in Nonces \cup {None},
               NEW a \in Atts \cup {None}, Chat(r, d, to, t, n, a)
        PROVE  NothingNew(req[q], req'[q])
    <3>. DEFINE pc == IF n = None THEN "insert" ELSE "lookup"
                s == [Idle EXCEPT !.op = "chat", !.pc = pc, !.peer = to, !.text = t, !.nonce = n,
                                  !.att = a]
    <3>1. s \in Slot /\ (s.pc # "insert" \/ s.nonce = None)
      BY ZenonT(40), <2>0 DEF Slot, Idle, Ops
    <3>2. Arrive(r, d, s)
      BY <2>1 DEF Chat
    <3>. HIDE DEF s
    <3>. QED
      BY <1>1, <3>1, <3>2
  <2>2. ASSUME NEW op \in {"edit", "delete", "react"}, NEW i \in Ids, NEW t \in Texts \cup {None},
               NEW on \in BOOLEAN, Modify(r, d, op, i, t, on)
        PROVE  NothingNew(req[q], req'[q])
    <3>. DEFINE s == [Idle EXCEPT !.op = op, !.pc = "select", !.id = i, !.text = t, !.on = on]
    <3>1. s \in Slot /\ s.pc # "insert"
      BY ZenonT(40), <2>0 DEF Slot, Idle, Ops
    <3>2. Arrive(r, d, s)
      BY <2>2 DEF Modify
    <3>. HIDE DEF s
    <3>. QED
      BY <1>1, <3>1, <3>2
  <2>3. ASSUME NEW op \in {"read", "resume", "history"}, NEW u \in Users, Pull(r, d, op, u)
        PROVE  NothingNew(req[q], req'[q])
    <3>. DEFINE s == [Idle EXCEPT !.op = op, !.pc = "select", !.peer = u, !.id = Cursor(d)]
    <3>1. s \in Slot /\ s.pc # "insert"
      BY <2>0 DEF Slot, Idle, Ops
    <3>2. Arrive(r, d, s)
      BY <2>3 DEF Pull
    <3>. HIDE DEF s
    <3>. QED
      BY <1>1, <3>1, <3>2
  <2>. QED
    BY <1>2, <2>1, <2>2, <2>3
<1>3. ASSUME NEW r \in Requests, Lookup(r)
      PROVE  NothingNew(req[q], req'[q]) \/ (Lookup(q) /\ Goto(q, "insert"))
  <2>1. CASE Goto(r, "insert")
    BY <1>0, <1>3, <2>1 DEF NothingNew, Goto
  <2>2. CASE \E i, pc : pc # "insert" /\ req' = [req EXCEPT ![r].id = i, ![r].pc = pc]
    BY <1>0, <2>2, LeavesInsert
  <2>3. Goto(r, "insert") \/ \E i : req' = [req EXCEPT ![r].id = i,
                                      ![r].pc = IF req[r].att = None THEN "push" ELSE "link"]
    BY <1>3 DEF Lookup, Found
  <2>4. (IF req[r].att = None THEN "push" ELSE "link") # "insert"
    OBVIOUS
  <2>. QED
    BY <2>1, <2>2, <2>3, <2>4
<1>4. ASSUME NEW r \in Requests,
             Insert(r) \/ InsertFails(r) \/ link_attachment(r) \/ PushChat(r)
      PROVE  NothingNew(req[q], req'[q])
  <2>1. (IF req[r].att = None THEN "push" ELSE "link") # "insert"
    OBVIOUS
  <2>. QED
    BY <1>0, <1>4, <2>1, LeavesInsert DEF Insert, InsertFails, link_attachment, PushChat
<1>5. ASSUME NEW r \in Requests,
             Select(r) \/ Write(r) \/ WriteFails(r) \/ PushUpdate(r) \/ MarkRead(r)
      PROVE  NothingNew(req[q], req'[q])
  <2>1. Finish(r) \/ Goto(r, "write") \/ Goto(r, "push")
    BY <1>5 DEF Select, Write, WriteFails, PushUpdate, MarkRead
  <2>. QED
    BY <1>0, <2>1, LeavesInsert
<1>6. ASSUME NEW r \in Requests, SelectPull(r)
      PROVE  NothingNew(req[q], req'[q])
  <2>1. \/ Finish(r)
        \/ \E i : req' = [req EXCEPT ![r].id = i, ![r].pc = "write"]
        \/ \E p : req' = [req EXCEPT ![r].page = p, ![r].pc = "write"]
        \/ \E p : req' = [req EXCEPT ![r].page = p, ![r].pc = "push"]
    BY <1>6 DEF SelectPull
  <2>2. "write" # "insert" /\ "push" # "insert"
    OBVIOUS
  <2>. QED
    BY <1>0, <2>1, <2>2, LeavesInsert
<1>7. ASSUME NEW r \in Requests, PushReceipt(r) \/ PushBackfill(r) \/ ReplyHistory(r) \/ Abort(r)
      PROVE  NothingNew(req[q], req'[q])
  <2>1. Finish(r)
    BY <1>7 DEF PushReceipt, PushBackfill, ReplyHistory, Abort
  <2>. QED
    BY <1>0, <2>1, LeavesInsert
<1>8. ASSUME NEW d \in Devices, Drop(d)
      PROVE  NothingNew(req[q], req'[q])
  <2>1. req'[q] = req[q] \/ req'[q] = [req[q] EXCEPT !.live = FALSE]
    BY <1>8 DEF Drop
  <2>. QED
    BY <1>0, <2>1 DEF NothingNew, Slot
<1>9. ASSUME UNCHANGED req
      PROVE  NothingNew(req[q], req'[q])
  BY <1>9 DEF NothingNew
<1>10. CASE \/ \E d \in Devices, a \in Atts : Presign(d, a)
            \/ \E d \in Devices, j \in Instances : Reconnect(d, j)
            \/ \E i, j \in Instances : \E lost \in SUBSET Users : Relay(i, j, lost)
            \/ UNCHANGED vars
  BY <1>9, <1>10 DEF Presign, Reconnect, Relay, vars
<1>. QED
  BY <1>2, <1>3, <1>4, <1>5, <1>6, <1>7, <1>8, <1>10 DEF Next

\* The handlers about to store, and the messages stored, are finitely many.
LEMMA CopiesFinite ==
    ASSUME Base, IsFiniteSet(Requests), NEW u, NEW n
    PROVE  /\ IsFiniteSet(Copies(u, n)) /\ Cardinality(Copies(u, n)) \in Nat
           /\ IsFiniteSet(Storing(u, n)) /\ Cardinality(Storing(u, n)) \in Nat
           /\ Cardinality(Storing(u, n)) <= Cardinality(Requests)
           /\ Cardinality(Requests) \in Nat
<1>1. Copies(u, n) \subseteq 1 .. Len(rows) /\ Len(rows) \in Nat
  BY DEF Copies, Base, RowsType
<1>2. IsFiniteSet(1 .. Len(rows))
  BY <1>1, FS_Interval
<1>3. Storing(u, n) \subseteq Requests
  BY DEF Storing
<1>. QED
  BY <1>1, <1>2, <1>3, FS_Subset, FS_CardinalityType

\* No step takes more than the handlers there are.
LEMMA CopiesKept ==
    ASSUME IsFiniteSet(Requests), Base, CopyInv, [Next]_vars
    PROVE  CopyInv'
<1>. SUFFICES ASSUME NEW u \in Users, NEW n \in Nonces \ Unread
              PROVE  (Cardinality(Copies(u, n)) + Cardinality(Storing(u, n))
                          <= Cardinality(Requests))'
  BY DEF CopyInv
<1>0. Base' /\ RowsGrow /\ n # None /\ rows \in Seq(Message) /\ rows' \in Seq(Message)
  BY Steps, MessagesConstants DEF Step, MessagesConstants, Base, RowsType
<1>1. /\ Cardinality(Copies(u, n)) + Cardinality(Storing(u, n)) <= Cardinality(Requests)
      /\ IsFiniteSet(Storing(u, n)) /\ Cardinality(Storing(u, n)) \in Nat
      /\ IsFiniteSet(Copies(u, n)) /\ Cardinality(Copies(u, n)) \in Nat
      /\ Cardinality(Requests) \in Nat
  BY CopiesFinite DEF CopyInv
<1>2. /\ Cardinality(Storing(u, n)') \in Nat /\ Cardinality(Storing(u, n)') <= Cardinality(Requests)
      /\ Cardinality(Copies(u, n)') \in Nat
  <2>1. Copies(u, n)' \subseteq 1 .. Len(rows') /\ Len(rows') \in Nat
    BY <1>0 DEF Copies
  <2>2. IsFiniteSet(1 .. Len(rows'))
    BY <2>1, FS_Interval
  <2>3. Storing(u, n)' \subseteq Requests
    BY DEF Storing
  <2>. QED
    BY <2>1, <2>2, <2>3, FS_Subset, FS_CardinalityType
<1>3. ASSUME NEW q \in Storing(u, n)', ~NothingNew(req[q], req'[q])
      PROVE  Cardinality(Copies(u, n)') = 0
  <2>1. q \in Requests /\ req'[q].nonce = n /\ Owner[req'[q].dev] = u
    BY <1>3 DEF Storing, me
  <2>2. Lookup(q) /\ Goto(q, "insert") /\ rows' = rows
    BY <1>3, <2>1, NewStoring DEF Lookup, Found, tables
  <2>3. req[q].nonce = n /\ me(q) = u
    BY <2>1, <2>2 DEF Goto, me, Base, ReqInv, Slot
  <2>4. req'[q].pc = "insert"
    BY <1>3 DEF Storing
  <2>5. Copies(u, n) = {}
    <3>1. CASE {i \in DOMAIN rows : rows[i].from = me(q) /\ rows[i].nonce = req[q].nonce} = {}
      BY <2>3, <3>1 DEF Copies
    <3>2. ASSUME NEW i, req' = [req EXCEPT ![q].id = i,
                                           ![q].pc = IF req[q].att = None THEN "push" ELSE "link"]
          PROVE  FALSE
      <4>1. (IF req[q].att = None THEN "push" ELSE "link") # "insert"
        OBVIOUS
      <4>2. req[q] \in Slot /\ req \in [Requests -> Slot]
        BY <2>1 DEF Base, ReqInv
      <4>3. req'[q].pc = IF req[q].att = None THEN "push" ELSE "link"
        BY <2>1, <3>2, <4>2 DEF Slot
      <4>. QED
        BY <2>4, <4>1, <4>3
    <3>. QED
      BY <2>2, <2>3, <3>1, <3>2 DEF Lookup, Found
  <2>6. Copies(u, n)' = {}
    BY <2>2, <2>5 DEF Copies
  <2>. QED
    BY <2>6, FS_EmptySet
<1>4. CASE \A q \in Storing(u, n)' : NothingNew(req[q], req'[q])
  <2>1. Storing(u, n)' \subseteq Storing(u, n)
    <3>1. SUFFICES ASSUME NEW q \in Storing(u, n)' PROVE q \in Storing(u, n)
      OBVIOUS
    <3>2. q \in Requests /\ req'[q].pc = "insert" /\ req'[q].nonce = n /\ Owner[req'[q].dev] = u
      BY <3>1 DEF Storing, me
    <3>. QED
      BY <1>0, <1>4, <3>1, <3>2 DEF NothingNew, Storing, me
  <2>2. CASE \E r \in Requests : Insert(r)
    <3>1. PICK r \in Requests : Insert(r)
      BY <2>2
    <3>2. req[r].pc = "insert" /\ req[r].op = "chat" /\ req[r] \in Slot
      BY <3>1, InFlight DEF Insert, Base
    <3>3. /\ Len(rows') = Len(rows) + 1 /\ Len(rows) \in Nat
          /\ rows'[Len(rows) + 1].from = me(r) /\ rows'[Len(rows) + 1].nonce = req[r].nonce
          /\ \A i \in 1 .. Len(rows) : rows'[i] = rows[i]
      BY <1>0, <3>1, <3>2, InsertGrows DEF Base
    <3>4. CASE me(r) = u /\ req[r].nonce = n
      <4>1. r \in Storing(u, n)
        BY <3>2, <3>4 DEF Storing
      <4>2. r \notin Storing(u, n)'
        <5>1. req'[r].pc # "insert"
          BY <3>1, <3>2 DEF Insert, Base, ReqInv, Slot
        <5>. QED
          BY <5>1 DEF Storing
      <4>3. Storing(u, n)' \subseteq Storing(u, n) \ {r}
        BY <2>1, <4>2
      <4>4. Cardinality(Storing(u, n) \ {r}) = Cardinality(Storing(u, n)) - 1
            /\ IsFiniteSet(Storing(u, n) \ {r})
        BY <1>1, <4>1, FS_RemoveElement
      <4>5. Cardinality(Storing(u, n)') <= Cardinality(Storing(u, n)) - 1
        BY <4>3, <4>4, FS_Subset
      <4>6. Copies(u, n)' = Copies(u, n) \cup {Len(rows) + 1}
        BY <1>0, <3>3, <3>4 DEF Copies
      <4>7. Len(rows) + 1 \notin Copies(u, n)
        BY <1>0, <3>3 DEF Copies
      <4>8. Cardinality(Copies(u, n)') = Cardinality(Copies(u, n)) + 1
        BY <1>1, <4>6, <4>7, FS_AddElement
      <4>. QED
        BY <1>1, <1>2, <4>5, <4>8
    <3>5. CASE ~(me(r) = u /\ req[r].nonce = n)
      <4>1. Copies(u, n)' = Copies(u, n)
        BY <1>0, <3>3, <3>5 DEF Copies
      <4>2. Cardinality(Storing(u, n)') <= Cardinality(Storing(u, n))
        BY <1>1, <2>1, FS_Subset
      <4>. QED
        BY <1>1, <1>2, <4>1, <4>2
    <3>. QED
      BY <3>4, <3>5
  <2>3. CASE ~\E r \in Requests : Insert(r)
    <3>1. Len(rows') = Len(rows)
      BY <2>3, EffectsOf, WriteGrows, MarkGrows DEF Effects, Base
    <3>2. Copies(u, n)' = Copies(u, n)
      <4>1. \A i \in 1 .. Len(rows) : rows'[i].from = rows[i].from /\ rows'[i].nonce = rows[i].nonce
        BY <1>0 DEF RowsGrow
      <4>. QED
        BY <1>0, <3>1, <4>1 DEF Copies
    <3>3. Cardinality(Storing(u, n)') <= Cardinality(Storing(u, n))
      BY <1>1, <2>1, FS_Subset
    <3>. QED
      BY <1>1, <1>2, <3>2, <3>3
  <2>. QED
    BY <2>2, <2>3
<1>. QED
  BY <1>1, <1>2, <1>3, <1>4

\* However often a message is sent again, and on whatever sockets, it is stored at most
\* once for each handler that can be in flight (while its lookups can be read).
THEOREM RetriesStoreFew ==
    ASSUME IsFiniteSet(Requests)
    PROVE  Spec => []RetriesBounded
<1>1. Init => CopyInv
  <2>. SUFFICES ASSUME Init, NEW u \in Users, NEW n \in Nonces
                PROVE  Cardinality(Copies(u, n)) + Cardinality(Storing(u, n))
                           <= Cardinality(Requests)
    BY DEF CopyInv
  <2>1. Copies(u, n) = {} /\ Storing(u, n) = {}
    BY DEF Init, Copies, Storing, Idle
  <2>. QED
    BY <2>1, FS_EmptySet, FS_CardinalityType
<1>2. Base /\ CopyInv /\ [Next]_vars => CopyInv'
  BY CopiesKept
<1>3. ASSUME Base, CopyInv PROVE RetriesBounded
  <2>. SUFFICES ASSUME NEW u \in Users, NEW n \in Nonces \ Unread
                PROVE  Cardinality(Copies(u, n)) <= Cardinality(Requests)
    BY DEF RetriesBounded
  <2>1. Cardinality(Copies(u, n)) + Cardinality(Storing(u, n)) <= Cardinality(Requests)
    BY <1>3 DEF CopyInv
  <2>. QED
    BY <1>3, <2>1, CopiesFinite
<1>. QED
  BY <1>1, <1>2, <1>3, Invariance, PTL DEF Spec

=============================================================================
