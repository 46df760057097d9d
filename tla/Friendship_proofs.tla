-------------------------- MODULE Friendship_proofs --------------------------
(***************************************************************************)
(* Proofs about Friendship, for any accounts, handlers in flight, caps and *)
(* limits, with and without failing queries: its types, that friends have  *)
(* both agreed, that barriers hold against what starts behind them, that   *)
(* swept invites are forgotten, and how far the cap can be exceeded.       *)
(***************************************************************************)
EXTENDS Friendship, FiniteSetTheorems, TLAPS

-----------------------------------------------------------------------------
(* The inductive invariant *)

\* A row says who agreed to it: nobody to no row, the sender to an invite, both to a
\* friendship.
RowInv ==
    \A p \in Pairs :
        /\ row[p].st = "none" => row[p] = NoRow /\ consent[p] = {}
        /\ row[p].st = "pending" => row[p].by \in p /\ consent[p] = {row[p].by}
        /\ row[p].st = "accepted" => consent[p] = p /\ ~row[p].stale

\* The stages of a request once it has passed each check.
PastBlock == {"ignored", "ignoring", "sweep", "policy", "select", "mine", "theirs",
              "count", "insert", "accept"}
PastIgnored == PastBlock \ {"ignored"}
PastIgnoring == PastIgnored \ {"ignoring"}
PastSweep == PastIgnoring \ {"sweep"}
PastPolicy == {"mine", "theirs", "count", "insert"}

\* What a slot remembers of the checks it has passed: a barrier that it looked for and
\* did not find is not one that has stood since it came in.
Passed(s) ==
    /\ s.pc = "idle" => s.since = {}
    /\ s.pc \in PastBlock => \A x \in s.since : x[1] # "block"
    /\ s.pc \in PastIgnored => <<"ignore", s.other, s.me>> \notin s.since
    /\ s.pc \in PastIgnoring => <<"ignore", s.me, s.other>> \notin s.since
    /\ s.pc = "select" /\ s.since # {} => s.pol = "nobody"
    /\ s.pc \in PastPolicy => s.since = {}
    /\ s.pc \in PastSweep => s.old = {}
    /\ s.pc = "accept" => s.seen = {s.other}

\* A slot in use is about two accounts.
Paired(s) == s.pc # "idle" => s.me \in Users /\ s.other \in Users /\ s.me # s.other

\* A slot as the handlers leave it.
Sound(s) == s \in Slot /\ Paired(s) /\ Passed(s)

\* The barriers and expired rows a slot remembers are still there.
Current(s) ==
    /\ \A x \in s.since : x \in Standing(s.me, s.other)
    /\ s.old \subseteq Stale

SlotInv == \A q \in Requests : Sound(req[q]) /\ Current(req[q])

IInv == TypeOK /\ RowInv /\ SlotInv

-----------------------------------------------------------------------------
(* Pairs, slots *)

\* Two accounts make a pair.
LEMMA TwoIsPair ==
    ASSUME NEW a \in Users, NEW b \in Users, a # b
    PROVE  {a, b} \in Pairs
<1>1. IsFiniteSet({a}) /\ Cardinality({a}) = 1
  BY FS_Singleton
<1>2. Cardinality({a} \cup {b}) = 2
  BY <1>1, FS_AddElement
<1>3. {a} \cup {b} = {a, b}
  OBVIOUS
<1>. QED
  BY <1>2, <1>3 DEF Pairs

\* An unused slot is sound and remembers nothing.
LEMMA IdleSound == Sound(Idle) /\ Current(Idle)
  BY DEF Sound, Current, Idle, Slot, PC, Policies, Passed, Paired, PastBlock, PastIgnored,
         PastIgnoring, PastSweep, PastPolicy

\* s with less to remember is t.
Forgets(s, t) ==
    /\ t \in Slot
    /\ t.pc = s.pc /\ t.me = s.me /\ t.other = s.other /\ t.pol = s.pol
    /\ t.mine = s.mine /\ t.seen = s.seen
    /\ t.since \subseteq s.since /\ t.old \subseteq s.old

\* A sound slot may forget.
LEMMA ForgetsSound ==
    ASSUME NEW s, Sound(s), NEW t, Forgets(s, t)
    PROVE  Sound(t)
<1>1. Paired(t)
  BY DEF Sound, Forgets, Paired
<1>2. Passed(t)
  BY DEF Sound, Forgets, Passed
<1>. QED
  BY <1>1, <1>2 DEF Sound, Forgets

\* Deleting rows makes a slot forget those rows.
LEMMA WithoutForgets ==
    ASSUME NEW s \in Slot, NEW ps
    PROVE  Forgets(s, Without(s, ps)) /\ Without(s, ps).old = s.old \ ps
           /\ Without(s, ps).since = s.since
  BY DEF Forgets, Without, Slot

\* Lifting a barrier makes a slot forget it.
LEMMA LiftForgets ==
    ASSUME NEW s \in Slot, NEW x
    PROVE  Forgets(s, [s EXCEPT !.since = @ \ {x}])
           /\ [s EXCEPT !.since = @ \ {x}].since = s.since \ {x}
           /\ [s EXCEPT !.since = @ \ {x}].old = s.old
  BY DEF Forgets, Slot

\* What a step of slot r does to the slots.
LEMMA StepFacts ==
    ASSUME NEW r \in Requests, NEW s \in Slot, NEW ps, TypeOK, Step(r, s, ps)
    PROVE  /\ req' = [q \in Requests |-> req'[q]]
           /\ Forgets(s, req'[r]) /\ req'[r].old = s.old \ ps /\ req'[r].since = s.since
           /\ \A q \in Requests \ {r} :
                 /\ Forgets(req[q], req'[q])
                 /\ req'[q].old = req[q].old \ ps /\ req'[q].since = req[q].since
<1>1. req'[r] = Without(s, ps)
  BY DEF Step
<1>2. \A q \in Requests \ {r} : req'[q] = Without(req[q], ps) /\ req[q] \in Slot
  BY DEF Step, TypeOK
<1>. QED
  BY <1>1, <1>2, WithoutForgets DEF Step

\* Between two accounts, every barrier but x still stands after the step.
StandsBut(x) ==
    \A a, b \in Users : a # b => Standing(a, b) \ {x} \subseteq Standing(a, b)'

\* Rows of ps aside, expired rows are still there after the step.
StaleBut(ps) == Stale \ ps \subseteq Stale'

\* What a slot remembers is true now, whatever the step lifts or deletes.
Keeps(t, x, ps) ==
    /\ Sound(t)
    /\ \A y \in t.since : y \in Standing(t.me, t.other) /\ y # x
    /\ t.old \subseteq Stale \ ps

\* When every slot keeps what survives the step, the slots' invariant holds after it.
LEMMA SlotsNow ==
    ASSUME NEW x, NEW ps, \A q \in Requests : Keeps(req'[q], x, ps),
           req' = [q \in Requests |-> req'[q]], StandsBut(x), StaleBut(ps)
    PROVE  SlotInv' /\ req' \in [Requests -> Slot]
<1>1. ASSUME NEW q \in Requests
      PROVE  Sound(req[q])' /\ Current(req[q])' /\ req'[q] \in Slot
  <2>1. Sound(req'[q]) /\ req'[q] \in Slot
    BY DEF Keeps, Sound
  <2>2. req'[q].old \subseteq Stale'
    BY DEF Keeps, StaleBut
  <2>3. ASSUME NEW y \in req'[q].since
        PROVE  y \in Standing(req[q].me, req[q].other)'
    <3>1. req'[q].me \in Users /\ req'[q].other \in Users /\ req'[q].me # req'[q].other
      BY <2>1 DEF Sound, Passed, Paired
    <3>2. y \in Standing(req'[q].me, req'[q].other) /\ y # x
      BY DEF Keeps
    <3>. QED
      BY <3>1, <3>2 DEF StandsBut, Standing
  <2>. QED
    BY <2>1, <2>2, <2>3 DEF Sound, Current, Paired, Passed
<1>. QED
  BY <1>1 DEF SlotInv

\* A slot that is sound and current keeps all that it does not have to forget.
LEMMA ForgetsKeeps ==
    ASSUME NEW s, NEW t, NEW x, NEW ps, Sound(s), Current(s), Forgets(s, t),
           x \notin t.since, t.old \cap ps = {}
    PROVE  Keeps(t, x, ps)
  BY ForgetsSound DEF Forgets, Current, Keeps

\* No barrier is lifted by a step that only adds blocks and ignores.
LEMMA StandsAll ==
    ASSUME bars \subseteq bars', UNCHANGED policy
    PROVE  \A x : StandsBut(x)
  BY DEF StandsBut, Standing

\* What no slot remembers: it stands for no barrier at all.
Nothing == <<"none", None, None>>

\* No slot remembers it.
LEMMA NothingRemembered ==
    ASSUME NEW t \in Slot PROVE Nothing \notin t.since
<1>1. t.since \subseteq Barrier
  BY DEF Slot
<1>2. \A y \in Barrier : y[1] # "none"
  BY DEF Barrier
<1>3. Nothing[1] = "none"
  BY DEF Nothing
<1>. QED
  BY <1>1, <1>2, <1>3

\* Slot r goes on as s, rows ps are deleted, and no barrier is lifted.
LEMMA SlotsAfter ==
    ASSUME TypeOK, SlotInv, NEW r \in Requests, NEW s, Sound(s), Current(s), NEW ps,
           Step(r, s, ps), StaleBut(ps), bars \subseteq bars', UNCHANGED policy
    PROVE  SlotInv' /\ req' \in [Requests -> Slot]
<1>0. s \in Slot
  BY DEF Sound
<1>2. ASSUME NEW q \in Requests
      PROVE  Keeps(req'[q], Nothing, ps)
  <2>1. CASE q = r
    <3>1. Forgets(s, req'[r]) /\ req'[r].old = s.old \ ps /\ req'[r].since = s.since
      BY <1>0, StepFacts
    <3>. QED
      BY <2>1, <3>1, NothingRemembered, ForgetsKeeps DEF Forgets
  <2>2. CASE q # r
    <3>1. Forgets(req[q], req'[q]) /\ req'[q].old = req[q].old \ ps /\ req'[q].since = req[q].since
      BY <1>0, <2>2, StepFacts
    <3>2. Sound(req[q]) /\ Current(req[q])
      BY DEF SlotInv
    <3>. QED
      BY <3>1, <3>2, NothingRemembered, ForgetsKeeps DEF Forgets
  <2>. QED
    BY <2>1, <2>2
<1>3. req' = [q \in Requests |-> req'[q]]
  BY <1>0, StepFacts
<1>. QED
  BY <1>2, <1>3, StandsAll, SlotsNow

\* The slots forget rows ps, which are deleted; no barrier is lifted.
LEMMA SlotsForgetRows ==
    ASSUME TypeOK, SlotInv, NEW ps, req' = [q \in Requests |-> Without(req[q], ps)],
           StaleBut(ps), UNCHANGED <<bars, policy>>
    PROVE  SlotInv' /\ req' \in [Requests -> Slot]
<1>1. ASSUME NEW q \in Requests
      PROVE  Keeps(req'[q], Nothing, ps)
  <2>1. Sound(req[q]) /\ Current(req[q]) /\ req[q] \in Slot
    BY DEF SlotInv, Sound
  <2>2. Forgets(req[q], req'[q]) /\ req'[q].old = req[q].old \ ps /\ req'[q].since = req[q].since
    BY <2>1, WithoutForgets
  <2>. QED
    BY <2>1, <2>2, NothingRemembered, ForgetsKeeps DEF Forgets
<1>. QED
  BY <1>1, StandsAll, SlotsNow

\* The slots forget barrier x, the only one that is lifted.
LEMMA SlotsForgetBarrier ==
    ASSUME TypeOK, SlotInv, NEW x, req' = Lifted(x), StandsBut(x), UNCHANGED row
    PROVE  SlotInv' /\ req' \in [Requests -> Slot]
<1>1. ASSUME NEW q \in Requests
      PROVE  Keeps(req'[q], x, {})
  <2>1. Sound(req[q]) /\ Current(req[q]) /\ req[q] \in Slot
    BY DEF SlotInv, Sound
  <2>2. Forgets(req[q], req'[q]) /\ req'[q].old = req[q].old /\ req'[q].since = req[q].since \ {x}
    BY <2>1, LiftForgets DEF Lifted
  <2>. QED
    BY <2>1, <2>2, ForgetsKeeps
<1>2. StaleBut({})
  BY DEF StaleBut, Stale
<1>3. req' = [q \in Requests |-> req'[q]]
  BY DEF Lifted
<1>. QED
  BY <1>1, <1>2, <1>3, SlotsNow

\* The slots are left alone, and no barrier is lifted.
LEMMA SlotsStay ==
    ASSUME TypeOK, SlotInv, UNCHANGED <<policy, req>>, bars \subseteq bars', StaleBut({})
    PROVE  SlotInv' /\ req' \in [Requests -> Slot]
<1>1. StandsBut(Nothing)
  BY StandsAll
<1>2. ASSUME NEW q \in Requests
      PROVE  Keeps(req'[q], Nothing, {})
  BY NothingRemembered DEF SlotInv, Keeps, Current, Sound
<1>. QED
  BY <1>1, <1>2, SlotsNow DEF TypeOK

-----------------------------------------------------------------------------
(* The steps of a request that leave the tables alone *)

\* Rows and who agreed to them, when neither changes.
LEMMA RowsStay ==
    ASSUME RowInv, UNCHANGED <<row, consent>>
    PROVE  RowInv' /\ StaleBut({})
  BY DEF RowInv, StaleBut, Stale

\* Slot r moves on as s, about the same two accounts and remembering no more.
Onward(r, s) ==
    /\ s \in Slot
    /\ s.me = req[r].me /\ s.other = req[r].other
    /\ s.since \subseteq req[r].since /\ s.old \subseteq req[r].old

\* A slot that moves on so, with the tables left alone, keeps the invariant.
LEMMA Proceeds ==
    ASSUME IInv, NEW r \in Requests, req[r].pc # "idle", NEW s, Onward(r, s), Passed(s),
           Step(r, s, {}), UNCHANGED tables
    PROVE  IInv'
<1>1. Sound(req[r]) /\ Current(req[r])
  BY DEF IInv, SlotInv
<1>2. Sound(s) /\ Current(s)
  BY <1>1 DEF Sound, Paired, Current, Onward
<1>3. SlotInv' /\ req' \in [Requests -> Slot]
  BY <1>2, RowsStay, SlotsAfter DEF IInv, tables
<1>. QED
  BY <1>3, RowsStay DEF IInv, TypeOK, tables

\* A handler ends and leaves the tables alone.
LEMMA Finishes ==
    ASSUME IInv, NEW r \in Requests, Finish(r), UNCHANGED tables
    PROVE  IInv'
<1>1. SlotInv' /\ req' \in [Requests -> Slot]
  BY IdleSound, RowsStay, SlotsAfter DEF IInv, tables, Finish
<1>. QED
  BY <1>1, RowsStay DEF IInv, TypeOK, tables

\* What is known of a handler in flight.
LEMMA InFlight ==
    ASSUME IInv, NEW r \in Requests, req[r].pc # "idle"
    PROVE  /\ req[r] \in Slot /\ Passed(req[r])
           /\ req[r].me \in Users /\ req[r].other \in Users /\ req[r].me # req[r].other
           /\ {req[r].me, req[r].other} \in Pairs
           /\ \A x \in req[r].since : x \in Standing(req[r].me, req[r].other)
           /\ req[r].old \subseteq Stale
<1>1. Sound(req[r]) /\ Current(req[r])
  BY DEF IInv, SlotInv
<1>. QED
  BY <1>1, TwoIsPair DEF Sound, Paired, Current

\* The kinds of barrier that can stand between a and b.
LEMMA StandingKinds ==
    ASSUME TypeOK, NEW a \in Users, NEW b \in Users, NEW x \in Standing(a, b)
    PROVE  \/ x \in {<<"block", a, b>>, <<"block", b, a>>} \cap bars
           \/ x \in {<<"ignore", a, b>>, <<"ignore", b, a>>} \cap bars
           \/ x = <<"nobody", b, b>> /\ policy[b] = "nobody"
           \/ a = b
<1>1. CASE x \in bars /\ {x[2], x[3]} = {a, b} /\ a # b
  <2>1. PICK k \in {"block", "ignore"}, c \in Users, d \in Users : x = <<k, c, d>>
    BY <1>1 DEF TypeOK
  <2>2. (c = a /\ d = b) \/ (c = b /\ d = a)
    BY <1>1, <2>1
  <2>. QED
    BY <1>1, <2>1, <2>2
<1>. QED
  BY <1>1 DEF Standing

\* A check that could not be read is passed with nothing remembered.
LEMMA Waves ==
    ASSUME IInv, NEW r \in Requests, NEW pc \in {"ignored", "ignoring", "sweep"},
           req[r].pc \in {"block", "ignored", "ignoring"}, Waved(r, pc), UNCHANGED tables
    PROVE  IInv'
<1>. DEFINE s == [req[r] EXCEPT !.pc = pc, !.since = {}]
<1>1. req[r] \in Slot /\ Step(r, s, {})
  BY InFlight DEF Waved
<1>2. Onward(r, s)
  BY <1>1 DEF Onward, Slot, PC
<1>3. Passed(s)
  BY <1>1 DEF Passed, Slot, PastSweep, PastIgnoring, PastIgnored, PastBlock, PastPolicy
<1>. QED
  BY <1>1, <1>2, <1>3, Proceeds

\* The check for blocks reads both directions.
LEMMA CheckBlockStep ==
    ASSUME IInv, NEW r \in Requests, CheckBlock(r) PROVE IInv'
<1>0. req[r].pc = "block" /\ UNCHANGED tables
  BY DEF CheckBlock
<1>1. CASE ~Blocked(req[r].me, req[r].other) /\ Goto(r, "ignored")
  <2>. DEFINE s == [req[r] EXCEPT !.pc = "ignored"]
  <2>1. req[r] \in Slot /\ Step(r, s, {})
    BY <1>0, <1>1, InFlight DEF Goto
  <2>2. Onward(r, s)
    BY <2>1 DEF Onward, Slot, PC
  <2>3. ASSUME NEW x \in req[r].since
        PROVE  x[1] # "block"
    <3>. DEFINE a == req[r].me
                b == req[r].other
    <3>1. a \in Users /\ b \in Users /\ a # b /\ x \in Standing(a, b)
      BY <1>0, InFlight
    <3>. HIDE DEF a, b
    <3>2. x \in {<<"ignore", a, b>>, <<"ignore", b, a>>} \/ x = <<"nobody", b, b>>
      <4>1. \/ x \in {<<"block", a, b>>, <<"block", b, a>>} \cap bars
            \/ x \in {<<"ignore", a, b>>, <<"ignore", b, a>>} \cap bars
            \/ x = <<"nobody", b, b>> /\ policy[b] = "nobody"
        BY <3>1, StandingKinds DEF IInv
      <4>2. {<<"block", a, b>>, <<"block", b, a>>} \cap bars = {}
        BY <1>1 DEF Blocked, a, b
      <4>. QED
        BY <4>1, <4>2
    <3>. QED
      BY <3>2
  <2>4. Passed(s)
    BY <2>1, <2>3 DEF Passed, Slot, PastSweep, PastIgnoring, PastIgnored, PastBlock, PastPolicy
  <2>. QED
    BY <1>0, <2>1, <2>2, <2>4, Proceeds
<1>. QED
  BY <1>0, <1>1, Finishes, Waves DEF CheckBlock

\* The check whether the target ignores the sender.
LEMMA CheckIgnoredStep ==
    ASSUME IInv, NEW r \in Requests, CheckIgnored(r) PROVE IInv'
<1>0. req[r].pc = "ignored" /\ UNCHANGED tables
  BY DEF CheckIgnored, HasIgnored
<1>1. CASE <<"ignore", req[r].other, req[r].me>> \notin bars /\ Goto(r, "ignoring")
  <2>. DEFINE s == [req[r] EXCEPT !.pc = "ignoring"]
  <2>1. req[r] \in Slot /\ Passed(req[r]) /\ Step(r, s, {})
    BY <1>0, <1>1, InFlight DEF Goto
  <2>2. Onward(r, s)
    BY <2>1 DEF Onward, Slot, PC
  <2>3. <<"ignore", req[r].other, req[r].me>> \notin req[r].since
    BY <1>0, <1>1, InFlight, StandingKinds DEF IInv
  <2>4. Passed(s)
    BY <1>0, <2>1, <2>3 DEF Passed, Slot, PastSweep, PastIgnoring, PastIgnored, PastBlock, PastPolicy
  <2>. QED
    BY <1>0, <2>1, <2>2, <2>4, Proceeds
<1>. QED
  BY <1>0, <1>1, Finishes, Waves DEF CheckIgnored, HasIgnored

\* The check whether the sender ignores the target.
LEMMA CheckIgnoringStep ==
    ASSUME IInv, NEW r \in Requests, CheckIgnoring(r) PROVE IInv'
<1>0. req[r].pc = "ignoring" /\ UNCHANGED tables
  BY DEF CheckIgnoring, HasIgnored
<1>1. CASE <<"ignore", req[r].me, req[r].other>> \notin bars /\ Goto(r, "sweep")
  <2>. DEFINE s == [req[r] EXCEPT !.pc = "sweep"]
  <2>1. req[r] \in Slot /\ Passed(req[r]) /\ Step(r, s, {})
    BY <1>0, <1>1, InFlight DEF Goto
  <2>2. Onward(r, s)
    BY <2>1 DEF Onward, Slot, PC
  <2>3. <<"ignore", req[r].me, req[r].other>> \notin req[r].since
    BY <1>0, <1>1, InFlight, StandingKinds DEF IInv
  <2>4. Passed(s)
    BY <1>0, <2>1, <2>3 DEF Passed, Slot, PastSweep, PastIgnoring, PastIgnored, PastBlock, PastPolicy
  <2>. QED
    BY <1>0, <2>1, <2>2, <2>4, Proceeds
<1>. QED
  BY <1>0, <1>1, Finishes, Waves DEF CheckIgnoring, HasIgnored

\* By the time the policy is read, only a target who takes no requests still bars one.
LEMMA OnlyPolicyLeft ==
    ASSUME IInv, NEW r \in Requests, req[r].pc = "policy", NEW x \in req[r].since
    PROVE  policy[req[r].other] = "nobody"
<1>. DEFINE a == req[r].me
            b == req[r].other
<1>1. a \in Users /\ b \in Users /\ a # b /\ x \in Standing(a, b) /\ Passed(req[r])
  BY InFlight
<1>2. x[1] # "block" /\ x # <<"ignore", a, b>> /\ x # <<"ignore", b, a>>
  BY <1>1 DEF Passed, PastIgnoring, PastIgnored, PastBlock
<1>. HIDE DEF a, b
<1>3. \/ x \in {<<"block", a, b>>, <<"block", b, a>>} \cap bars
      \/ x \in {<<"ignore", a, b>>, <<"ignore", b, a>>} \cap bars
      \/ x = <<"nobody", b, b>> /\ policy[b] = "nobody"
  BY <1>1, StandingKinds DEF IInv
<1>4. x # <<"block", a, b>> /\ x # <<"block", b, a>>
  BY <1>2
<1>. QED
  BY <1>2, <1>3, <1>4 DEF b

\* The policy is read.
LEMMA ReadPolicyStep ==
    ASSUME IInv, NEW r \in Requests, ReadPolicy(r) PROVE IInv'
<1>0. req[r].pc = "policy" /\ UNCHANGED tables /\ req[r] \in Slot /\ Passed(req[r])
      /\ req[r].other \in Users /\ policy[req[r].other] \in Policies
  BY InFlight DEF ReadPolicy, IInv, TypeOK
<1>1. req[r].old = {}
  BY <1>0 DEF Passed, PastSweep, PastIgnoring, PastIgnored, PastBlock
<1>2. \A x \in req[r].since : x[1] # "block" /\ x # <<"ignore", req[r].other, req[r].me>>
                              /\ x # <<"ignore", req[r].me, req[r].other>>
  BY <1>0 DEF Passed, PastIgnoring, PastIgnored, PastBlock
<1>3. CASE Step(r, [req[r] EXCEPT !.pc = "select", !.pol = policy[req[r].other]], {})
  <2>. DEFINE s == [req[r] EXCEPT !.pc = "select", !.pol = policy[req[r].other]]
  <2>1. Onward(r, s)
    BY <1>0 DEF Onward, Slot, PC
  <2>2. s.since # {} => s.pol = "nobody"
    BY <1>0, OnlyPolicyLeft DEF Slot
  <2>3. Passed(s)
    BY <1>0, <1>1, <1>2, <2>2 DEF Passed, Slot, PastPolicy
  <2>. QED
    BY <1>0, <1>3, <2>1, <2>3, Proceeds
<1>4. CASE Waved(r, "select")
  <2>. DEFINE s == [req[r] EXCEPT !.pc = "select", !.since = {}]
  <2>1. Onward(r, s) /\ Step(r, s, {})
    BY <1>0, <1>4 DEF Onward, Slot, PC, Waved
  <2>2. Passed(s)
    BY <1>0, <1>1 DEF Passed, Slot, PastPolicy
  <2>. QED
    BY <1>0, <2>1, <2>2, Proceeds
<1>. QED
  BY <1>3, <1>4 DEF ReadPolicy

\* The pair's row decides.
LEMMA SelectStep ==
    ASSUME IInv, NEW r \in Requests, Select(r) PROVE IInv'
<1>. DEFINE p == {req[r].me, req[r].other}
<1>0. req[r].pc = "select" /\ UNCHANGED tables /\ req[r] \in Slot /\ Passed(req[r])
      /\ req[r].other \in Users /\ p \in Pairs
  BY InFlight DEF Select
<1>1. req[r].old = {} /\ (req[r].since # {} => req[r].pol = "nobody")
  BY <1>0 DEF Passed, PastSweep, PastIgnoring, PastIgnored, PastBlock
<1>2. CASE Invited(req[r].me, req[r].other)
           /\ Step(r, [req[r] EXCEPT !.pc = "accept", !.pol = "everyone",
                                     !.seen = consent[p]], {})
  <2>. DEFINE s == [req[r] EXCEPT !.pc = "accept", !.pol = "everyone", !.seen = consent[p]]
  <2>1. consent[p] = {req[r].other}
    BY <1>0, <1>2 DEF Invited, IInv, RowInv
  <2>2. Onward(r, s)
    BY <1>0, <2>1 DEF Onward, Slot, PC, Policies
  <2>3. Passed(s)
    BY <1>0, <1>1, <2>1
    DEF Passed, Slot, PastPolicy, PastSweep, PastIgnoring, PastIgnored, PastBlock
  <2>. QED
    BY <1>0, <1>2, <2>2, <2>3, Proceeds
<1>3. CASE req[r].pol = "mutual"
           /\ Step(r, [req[r] EXCEPT !.pc = "mine", !.pol = "everyone"], {})
  <2>. DEFINE s == [req[r] EXCEPT !.pc = "mine", !.pol = "everyone"]
  <2>1. Onward(r, s)
    BY <1>0 DEF Onward, Slot, PC, Policies
  <2>2. Passed(s)
    BY <1>0, <1>1, <1>3 DEF Passed, Slot
  <2>. QED
    BY <1>0, <1>3, <2>1, <2>2, Proceeds
<1>4. CASE req[r].pol = "everyone" /\ Goto(r, "count")
  <2>. DEFINE s == [req[r] EXCEPT !.pc = "count"]
  <2>1. Onward(r, s) /\ Step(r, s, {})
    BY <1>0, <1>4 DEF Onward, Slot, PC, Goto
  <2>2. Passed(s)
    BY <1>0, <1>1, <1>4 DEF Passed, Slot
  <2>. QED
    BY <1>0, <2>1, <2>2, Proceeds
<1>. QED
  BY <1>0, <1>2, <1>3, <1>4, Finishes DEF Select

\* Past the policy a request goes on with nothing remembered.
LEMMA PastPolicyStep ==
    ASSUME IInv, NEW r \in Requests, req[r].pc \in PastPolicy, NEW s,
           s \in Slot, s.pc \in PastPolicy, s.me = req[r].me, s.other = req[r].other,
           s.since = req[r].since, s.old = req[r].old, Step(r, s, {}), UNCHANGED tables
    PROVE  IInv'
<1>1. req[r].pc # "idle" /\ Passed(req[r])
  BY InFlight DEF PastPolicy
<1>2. req[r].since = {} /\ req[r].old = {}
  BY <1>1 DEF Passed, PastPolicy, PastSweep, PastIgnoring, PastIgnored, PastBlock
<1>3. Passed(s)
  BY <1>2 DEF Passed, PastPolicy
<1>. QED
  BY <1>1, <1>3, Proceeds DEF Onward

\* The sender's friends are read.
LEMMA ReadMineStep ==
    ASSUME IInv, NEW r \in Requests, ReadMine(r) PROVE IInv'
<1>0. req[r].pc = "mine" /\ UNCHANGED tables /\ req[r] \in Slot
  BY InFlight DEF ReadMine
<1>1. CASE Step(r, [req[r] EXCEPT !.pc = "theirs", !.mine = friend_ids(req[r].me)], {})
  <2>. DEFINE s == [req[r] EXCEPT !.pc = "theirs", !.mine = friend_ids(req[r].me)]
  <2>1. friend_ids(req[r].me) \subseteq Users
    BY DEF friend_ids
  <2>2. s \in Slot
    BY <1>0, <2>1 DEF Slot, PC
  <2>. QED
    BY <1>0, <1>1, <2>2, PastPolicyStep DEF PastPolicy, Slot
<1>. QED
  BY <1>0, <1>1, Finishes DEF ReadMine

\* The target's friends are read.
LEMMA ReadTheirsStep ==
    ASSUME IInv, NEW r \in Requests, ReadTheirs(r) PROVE IInv'
<1>0. req[r].pc = "theirs" /\ UNCHANGED tables /\ req[r] \in Slot
  BY InFlight DEF ReadTheirs
<1>1. CASE Step(r, [req[r] EXCEPT !.pc = "count", !.mine = {}], {})
  <2>. DEFINE s == [req[r] EXCEPT !.pc = "count", !.mine = {}]
  <2>1. s \in Slot
    BY <1>0 DEF Slot, PC
  <2>. QED
    BY <1>0, <1>1, <2>1, PastPolicyStep DEF PastPolicy, Slot
<1>. QED
  BY <1>0, <1>1, Finishes DEF ReadTheirs

\* The outstanding requests are counted.
LEMMA CountStep ==
    ASSUME IInv, NEW r \in Requests, Count(r) PROVE IInv'
<1>0. req[r].pc = "count" /\ UNCHANGED tables /\ req[r] \in Slot
  BY InFlight DEF Count
<1>1. CASE Goto(r, "insert")
  <2>. DEFINE s == [req[r] EXCEPT !.pc = "insert"]
  <2>1. s \in Slot
    BY <1>0 DEF Slot, PC
  <2>. QED
    BY <1>0, <1>1, <2>1, PastPolicyStep DEF PastPolicy, Slot, Goto
<1>. QED
  BY <1>0, <1>1, Finishes DEF Count

\* A new request starts behind the barriers and beside the expired rows of the moment.
LEMMA AskStep ==
    ASSUME IInv, NEW r \in Requests, NEW a \in Users, NEW b \in Users, Ask(r, a, b) PROVE IInv'
<1>. DEFINE s == [Idle EXCEPT !.pc = "block", !.me = a, !.other = b,
                              !.since = Standing(a, b), !.old = Stale]
<1>1. a # b /\ Step(r, s, {}) /\ UNCHANGED tables
  BY DEF Ask
<1>2. Standing(a, b) \subseteq Barrier
  BY DEF Standing, Barrier, IInv, TypeOK
<1>3. s \in Slot /\ s.pc = "block" /\ s.me = a /\ s.other = b /\ s.since = Standing(a, b)
      /\ s.old = Stale
  BY <1>2 DEF Idle, Slot, PC, Policies, Stale
<1>. HIDE DEF s
<1>4. Sound(s) /\ Current(s)
  BY <1>1, <1>3 DEF Sound, Paired, Passed, Current, PastSweep, PastIgnoring, PastIgnored,
                    PastBlock, PastPolicy
<1>5. SlotInv' /\ req' \in [Requests -> Slot]
  BY <1>1, <1>4, RowsStay, SlotsAfter DEF IInv, tables
<1>. QED
  BY <1>1, <1>5, RowsStay DEF IInv, TypeOK, tables

-----------------------------------------------------------------------------
(* The steps that write rows *)

RowType == row \in [Pairs -> Row] /\ consent \in [Pairs -> SUBSET Users]

\* Deleting rows leaves the others, and what is said of them, alone.
LEMMA Deletes ==
    ASSUME TypeOK, RowInv, NEW ps, Delete(ps)
    PROVE  RowType' /\ RowInv' /\ StaleBut(ps)
<1>1. RowType'
  BY DEF TypeOK, Delete, RowType, NoRow, Row
<1>2. RowInv'
  BY DEF RowInv, Delete, NoRow, TypeOK
<1>3. StaleBut(ps)
  BY DEF StaleBut, Stale, Delete
<1>. QED
  BY <1>1, <1>2, <1>3

\* Row p is accepted, and both accounts of p are on record.
LEMMA Accepts ==
    ASSUME TypeOK, RowInv, NEW p \in Pairs, row' = [row EXCEPT ![p] = Accepted],
           consent' = [consent EXCEPT ![p] = p]
    PROVE  RowType' /\ RowInv' /\ StaleBut({p})
<1>1. RowType'
  BY DEF TypeOK, RowType, Accepted, Row, Pairs
<1>2. RowInv'
  BY DEF RowInv, Accepted, TypeOK
<1>3. StaleBut({p})
  BY DEF StaleBut, Stale, TypeOK
<1>. QED
  BY <1>1, <1>2, <1>3

\* A slot that goes on as s beside rows that keep the invariant.
LEMMA SlotAndRows ==
    ASSUME IInv, NEW r \in Requests, NEW s, Sound(s), Current(s), NEW ps, Step(r, s, ps),
           RowType', RowInv', StaleBut(ps), UNCHANGED <<bars, policy>>
    PROVE  IInv'
<1>1. SlotInv' /\ req' \in [Requests -> Slot]
  BY SlotsAfter DEF IInv
<1>. QED
  BY <1>1 DEF IInv, TypeOK, RowType

\* Slots that forget rows ps beside rows that keep the invariant.
LEMMA ForgetAndRows ==
    ASSUME IInv, NEW ps, req' = [q \in Requests |-> Without(req[q], ps)],
           RowType', RowInv', StaleBut(ps), UNCHANGED <<bars, policy>>
    PROVE  IInv'
<1>1. SlotInv' /\ req' \in [Requests -> Slot]
  BY SlotsForgetRows DEF IInv
<1>. QED
  BY <1>1 DEF IInv, TypeOK, RowType

\* The expired invites are swept, or the sweep fails.
LEMMA SweepStep ==
    ASSUME IInv, NEW r \in Requests, Sweep(r) PROVE IInv'
<1>0. req[r].pc = "sweep" /\ UNCHANGED <<bars, policy>> /\ req[r] \in Slot /\ Passed(req[r])
  BY InFlight DEF Sweep
<1>1. CASE Delete(Stale) /\ Step(r, [req[r] EXCEPT !.pc = "policy"], Stale)
  <2>. DEFINE s == [req[r] EXCEPT !.pc = "policy"]
              t == [s EXCEPT !.old = {}]
  <2>1. req[r].old \subseteq Stale
    BY <1>0, InFlight
  <2>2. Without(s, Stale) = t /\ Without(t, Stale) = t
    BY <1>0, <2>1 DEF Without, Slot
  <2>3. Step(r, t, Stale)
    BY <1>1, <2>2 DEF Step
  <2>4. t \in Slot /\ t.me = req[r].me /\ t.other = req[r].other /\ t.since = req[r].since
        /\ t.old = {} /\ t.pc = "policy"
    BY <1>0 DEF Slot, PC
  <2>5. Sound(t) /\ Current(t)
    BY <1>0, <2>4, InFlight DEF Sound, Paired, Passed, Current, PastSweep, PastIgnoring,
                                PastIgnored, PastBlock, PastPolicy
  <2>6. RowType' /\ RowInv' /\ StaleBut(Stale)
    BY <1>1, Deletes DEF IInv
  <2>. HIDE DEF t
  <2>. QED
    BY <1>0, <2>3, <2>5, <2>6, SlotAndRows
<1>2. CASE /\ Step(r, [req[r] EXCEPT !.pc = "policy", !.old = {}], {})
           /\ UNCHANGED <<row, consent>>
  <2>. DEFINE t == [req[r] EXCEPT !.pc = "policy", !.old = {}]
  <2>1. t \in Slot /\ t.me = req[r].me /\ t.other = req[r].other /\ t.since = req[r].since
        /\ t.old = {} /\ t.pc = "policy"
    BY <1>0 DEF Slot, PC
  <2>2. Onward(r, t)
    BY <2>1 DEF Onward
  <2>3. Passed(t)
    BY <1>0, <2>1 DEF Passed, PastSweep, PastIgnoring, PastIgnored, PastBlock, PastPolicy
  <2>. QED
    BY <1>0, <1>2, <2>2, <2>3, Proceeds DEF tables
<1>. QED
  BY <1>1, <1>2 DEF Sweep

\* A counter-request accepts what the row has become.
LEMMA CounterAcceptStep ==
    ASSUME IInv, NEW r \in Requests, CounterAccept(r) PROVE IInv'
<1>. DEFINE p == {req[r].me, req[r].other}
<1>0. req[r].pc = "accept" /\ UNCHANGED <<bars, policy>> /\ req[r].seen = {req[r].other}
      /\ p \in Pairs
  BY InFlight DEF CounterAccept, Passed
<1>1. CASE /\ row[p].st # "none"
           /\ row' = [row EXCEPT ![p] = Accepted]
           /\ consent' = [consent EXCEPT ![p] = @ \cup {req[r].me} \cup req[r].seen]
           /\ Step(r, Idle, {p})
  <2>1. consent[p] \subseteq p
    BY <1>0, <1>1 DEF IInv, RowInv, TypeOK, Row
  <2>2. consent[p] \cup {req[r].me} \cup req[r].seen = p
    BY <1>0, <2>1
  <2>3. RowType' /\ RowInv' /\ StaleBut({p})
    BY <1>0, <1>1, <2>2, Accepts DEF IInv
  <2>. QED
    BY <1>0, <1>1, <2>3, IdleSound, SlotAndRows
<1>2. CASE Finish(r) /\ UNCHANGED <<row, consent>>
  BY <1>0, <1>2, Finishes DEF tables
<1>. QED
  BY <1>1, <1>2 DEF CounterAccept

\* The invite is written, unless a row is in its way.
LEMMA InsertStep ==
    ASSUME IInv, NEW r \in Requests, Insert(r) PROVE IInv'
<1>. DEFINE p == {req[r].me, req[r].other}
<1>0. Finish(r) /\ UNCHANGED <<bars, policy>> /\ p \in Pairs /\ req[r].me \in Users
  BY InFlight DEF Insert
<1>1. CASE /\ row[p].st = "none"
           /\ row' = [row EXCEPT ![p] = [st |-> "pending", by |-> req[r].me, stale |-> FALSE]]
           /\ consent' = [consent EXCEPT ![p] = {req[r].me}]
  <2>0. row[p] = NoRow
    BY <1>0, <1>1 DEF IInv, RowInv
  <2>1. RowType'
    BY <1>0, <1>1 DEF RowType, IInv, TypeOK, Row
  <2>2. RowInv'
    BY <1>0, <1>1 DEF RowInv, IInv, TypeOK
  <2>3. StaleBut({})
    <3>1. ASSUME NEW q \in Pairs, row[q].stale
          PROVE  row'[q].stale
      <4>1. q # p
        BY <2>0, <3>1 DEF NoRow
      <4>2. row'[q] = row[q]
        BY <1>0, <1>1, <4>1 DEF IInv, TypeOK
      <4>. QED
        BY <3>1, <4>2
    <3>. QED
      BY <3>1 DEF StaleBut, Stale
  <2>. QED
    BY <1>0, <2>1, <2>2, <2>3, IdleSound, SlotAndRows DEF Finish
<1>2. CASE UNCHANGED <<row, consent>>
  BY <1>0, <1>2, Finishes DEF tables
<1>. QED
  BY <1>1, <1>2 DEF Insert

\* An answer: the invite from b is accepted by a.
LEMMA AcceptStep ==
    ASSUME IInv, NEW a \in Users, NEW b \in Users, Accept(a, b) PROVE IInv'
<1>. DEFINE p == {a, b}
<1>1. p \in Pairs /\ Invited(a, b)
  BY TwoIsPair DEF Accept
<1>2. consent[p] \cup {a} = p
  BY <1>1 DEF IInv, RowInv, Invited
<1>3. row' = [row EXCEPT ![p] = Accepted] /\ consent' = [consent EXCEPT ![p] = p]
  BY <1>2 DEF Accept
<1>4. RowType' /\ RowInv' /\ StaleBut({p})
  BY <1>1, <1>3, Accepts DEF IInv
<1>. QED
  BY <1>4, ForgetAndRows DEF Accept

\* Declined, cancelled or removed.
LEMMA RemoveStep ==
    ASSUME IInv, NEW a \in Users, NEW b \in Users, Remove(a, b) PROVE IInv'
<1>1. RowType' /\ RowInv' /\ StaleBut({{a, b}})
  BY Deletes DEF Remove, IInv
<1>. QED
  BY <1>1, ForgetAndRows DEF Remove

\* The friends list sweeps expired invites.
LEMMA ListStep ==
    ASSUME IInv, List PROVE IInv'
<1>1. RowType' /\ RowInv' /\ StaleBut(Stale)
  BY Deletes DEF List, IInv
<1>. QED
  BY <1>1, ForgetAndRows DEF List

\* An invite expires.
LEMMA ExpireStep ==
    ASSUME IInv, NEW p \in Pairs, Expire(p) PROVE IInv'
<1>1. row' = [row EXCEPT ![p].stale = TRUE] /\ row[p].st = "pending" /\ row[p] \in Row
  BY DEF Expire, IInv, TypeOK
<1>2. RowType' /\ RowInv' /\ StaleBut({})
  <2>1. \A q \in Pairs \ {p} : row'[q] = row[q]
    BY <1>1 DEF IInv, TypeOK
  <2>2. row'[p] = [row[p] EXCEPT !.stale = TRUE]
    BY <1>1 DEF IInv, TypeOK
  <2>3. row'[p] \in Row /\ row'[p].st = "pending" /\ row'[p].by = row[p].by
    BY ZenonT(40), <1>1, <2>2 DEF Row
  <2>4. row'[p].stale
    BY <1>1, <2>2 DEF Row
  <2>5. RowType'
    BY <1>1, <2>1, <2>3 DEF RowType, Expire, IInv, TypeOK
  <2>6. RowInv'
    BY <1>1, <2>1, <2>3 DEF RowInv, Expire, IInv
  <2>7. StaleBut({})
    BY <2>1, <2>4 DEF StaleBut, Stale
  <2>. QED
    BY <2>5, <2>6, <2>7
<1>3. SlotInv' /\ req' \in [Requests -> Slot]
  BY <1>2, SlotsStay DEF Expire, IInv
<1>. QED
  BY <1>2, <1>3 DEF IInv, TypeOK, RowType, Expire

-----------------------------------------------------------------------------
(* The steps about barriers *)

\* A slot of a handler that is about to raise a barrier.
LEMMA RaisingSound ==
    ASSUME NEW a \in Users, NEW b \in Users, a # b, NEW pc \in {"mute", "bar"}
    PROVE  LET s == [Idle EXCEPT !.pc = pc, !.me = a, !.other = b] IN Sound(s) /\ Current(s)
  BY DEF Sound, Current, Idle, Slot, PC, Policies, Passed, Paired, PastBlock, PastIgnored,
         PastIgnoring, PastSweep, PastPolicy

\* Declining with an ignore deletes the invite first.
LEMMA IgnoreStep ==
    ASSUME IInv, NEW r \in Requests, NEW a \in Users, NEW b \in Users, Ignore(r, a, b)
    PROVE  IInv'
<1>. DEFINE ps == {p \in {{a, b}} : Invited(a, b)}
            s == [Idle EXCEPT !.pc = "mute", !.me = a, !.other = b]
<1>1. Delete(ps) /\ Step(r, s, ps) /\ UNCHANGED <<bars, policy>> /\ a # b
  BY DEF Ignore
<1>2. RowType' /\ RowInv' /\ StaleBut(ps)
  BY <1>1, Deletes DEF IInv
<1>3. Sound(s) /\ Current(s)
  BY <1>1, RaisingSound
<1>. QED
  BY <1>1, <1>2, <1>3, SlotAndRows

\* Blocking drops the friendship first, or fails to.
LEMMA BlockStep ==
    ASSUME IInv, NEW r \in Requests, NEW a \in Users, NEW b \in Users, Block(r, a, b)
    PROVE  IInv'
<1>. DEFINE s == [Idle EXCEPT !.pc = "bar", !.me = a, !.other = b]
<1>1. UNCHANGED <<bars, policy>> /\ a # b
  BY DEF Block
<1>2. Sound(s) /\ Current(s)
  BY <1>1, RaisingSound
<1>3. CASE Delete({{a, b}}) /\ Step(r, s, {{a, b}})
  <2>1. RowType' /\ RowInv' /\ StaleBut({{a, b}})
    BY <1>3, Deletes DEF IInv
  <2>. QED
    BY <1>1, <1>2, <1>3, <2>1, SlotAndRows
<1>4. CASE Step(r, s, {}) /\ UNCHANGED <<row, consent>>
  <2>1. RowType' /\ RowInv' /\ StaleBut({})
    BY <1>4, RowsStay DEF IInv, RowType, TypeOK
  <2>. QED
    BY <1>1, <1>2, <1>4, <2>1, SlotAndRows
<1>. QED
  BY <1>3, <1>4 DEF Block

\* A handler stores a block or an ignore and ends.
LEMMA Raises ==
    ASSUME IInv, NEW r \in Requests, req[r].pc # "idle", NEW k \in {"ignore", "block"},
           Raise(k, req[r].me, req[r].other), Finish(r), UNCHANGED <<row, policy, consent>>
    PROVE  IInv'
<1>1. bars' \in SUBSET ({"block", "ignore"} \X Users \X Users) /\ bars \subseteq bars'
  <2>1. req[r].me \in Users /\ req[r].other \in Users
    BY InFlight
  <2>2. <<k, req[r].me, req[r].other>> \in {"block", "ignore"} \X Users \X Users
    BY <2>1
  <2>. QED
    BY <2>2 DEF Raise, IInv, TypeOK
<1>2. SlotInv' /\ req' \in [Requests -> Slot]
  BY <1>1, IdleSound, RowsStay, SlotsAfter DEF IInv, Finish
<1>. QED
  BY <1>1, <1>2, RowsStay DEF IInv, TypeOK

\* An ignore is stored in one statement.
LEMMA SetIgnoreStep ==
    ASSUME IInv, NEW a \in Users, NEW b \in Users, SetIgnore(a, b) PROVE IInv'
<1>1. bars' \in SUBSET ({"block", "ignore"} \X Users \X Users) /\ bars \subseteq bars'
  BY DEF SetIgnore, Raise, IInv, TypeOK
<1>2. RowInv' /\ StaleBut({})
  BY RowsStay DEF SetIgnore, IInv
<1>3. SlotInv' /\ req' \in [Requests -> Slot]
  BY <1>1, <1>2, SlotsStay DEF SetIgnore, IInv
<1>. QED
  BY <1>1, <1>2, <1>3 DEF IInv, TypeOK, SetIgnore

\* A block or an ignore is taken back.
LEMMA UnbarStep ==
    ASSUME IInv, NEW k \in {"block", "ignore"}, NEW a \in Users, NEW b \in Users,
           Unbar(k, a, b)
    PROVE  IInv'
<1>1. StandsBut(<<k, a, b>>)
  BY DEF StandsBut, Standing, Unbar
<1>2. SlotInv' /\ req' \in [Requests -> Slot]
  BY <1>1, SlotsForgetBarrier DEF Unbar, IInv
<1>. QED
  BY <1>2, RowsStay DEF IInv, TypeOK, Unbar

\* An account changes whose requests it takes.
LEMMA SetPolicyStep ==
    ASSUME IInv, NEW a \in Users, NEW p \in Policies, SetPolicy(a, p) PROVE IInv'
<1>1. StandsBut(<<"nobody", a, a>>)
  BY DEF StandsBut, Standing, SetPolicy, IInv, TypeOK
<1>2. SlotInv' /\ req' \in [Requests -> Slot]
  BY <1>1, SlotsForgetBarrier DEF SetPolicy, IInv
<1>. QED
  BY <1>2, RowsStay DEF IInv, TypeOK, SetPolicy

-----------------------------------------------------------------------------
(* The invariant *)

\* It holds in an empty database with nothing in flight.
LEMMA InitInv == Init => IInv
<1>. SUFFICES ASSUME Init PROVE IInv
  OBVIOUS
<1>1. TypeOK
  BY IdleSound DEF Init, TypeOK, NoRow, Row, Policies, Sound
<1>2. RowInv
  BY DEF Init, RowInv, NoRow
<1>3. SlotInv
  BY IdleSound DEF Init, SlotInv
<1>. QED
  BY <1>1, <1>2, <1>3 DEF IInv

\* Every step keeps it.
LEMMA StepInv == IInv /\ [Next]_vars => IInv'
<1>. SUFFICES ASSUME IInv, [Next]_vars PROVE IInv'
  OBVIOUS
<1>1. ASSUME NEW r \in Requests, Handler(r)
      PROVE  IInv'
  <2>1. CASE Abort(r)
    BY <2>1, Finishes DEF Abort
  <2>2. CASE Mute(r) \/ Bar(r)
    BY <2>2, Raises DEF Mute, Bar
  <2>. QED
    BY <1>1, <2>1, <2>2, CheckBlockStep, CheckIgnoredStep, CheckIgnoringStep, SweepStep,
       ReadPolicyStep, SelectStep, CounterAcceptStep, ReadMineStep, ReadTheirsStep,
       CountStep, InsertStep DEF Handler
<1>2. ASSUME NEW r \in Requests, NEW a \in Users, NEW b \in Users,
             Ask(r, a, b) \/ Ignore(r, a, b) \/ Block(r, a, b)
      PROVE  IInv'
  BY <1>2, AskStep, IgnoreStep, BlockStep
<1>3. ASSUME NEW a \in Users, NEW b \in Users, Accept(a, b) \/ Remove(a, b) \/ SetIgnore(a, b)
      PROVE  IInv'
  BY <1>3, AcceptStep, RemoveStep, SetIgnoreStep
<1>4. CASE UNCHANGED vars
  <2>1. SlotInv' /\ req' \in [Requests -> Slot]
    BY <1>4, RowsStay, SlotsStay DEF IInv, vars
  <2>. QED
    BY <1>4, <2>1, RowsStay DEF IInv, TypeOK, vars
<1>. QED
  BY <1>1, <1>2, <1>3, <1>4, UnbarStep, SetPolicyStep, ExpireStep, ListStep DEF Next

\* The invariant holds throughout.
THEOREM Invariance == Spec => []IInv
  BY InitInv, StepInv, PTL DEF Spec

-----------------------------------------------------------------------------
(* What it says *)

\* Rows, barriers, policies and handlers keep their types.
THEOREM TypeCorrect == Spec => []TypeOK
<1>1. IInv => TypeOK
  BY DEF IInv
<1>. QED
  BY <1>1, Invariance, PTL

\* Nobody is befriended unasked: an accepted row has the consent of both, though an
\* accept may land on a row that replaced the one its handler read.
THEOREM FriendsAgreed == Spec => []FriendsBothAgreed
<1>1. IInv => FriendsBothAgreed
  BY DEF IInv, RowInv, FriendsBothAgreed
<1>. QED
  BY <1>1, Invariance, PTL

\* A request does not get past a barrier that stands throughout, in whatever order the
\* five reads and the changes of others interleave.
THEOREM BarriersStop == Spec => []BarriersHold
<1>1. ASSUME IInv PROVE BarriersHold
  <2>1. ASSUME NEW r \in Requests, req[r].pc = "insert"
        PROVE  req[r].since = {}
    BY <1>1, <2>1, InFlight DEF Passed, PastPolicy
  <2>2. ASSUME NEW r \in Requests, req[r].pc = "accept", NEW x \in req[r].since
        PROVE  x[1] = "nobody"
    <3>. DEFINE a == req[r].me
                b == req[r].other
    <3>1. a \in Users /\ b \in Users /\ a # b /\ x \in Standing(a, b) /\ Passed(req[r])
      BY <1>1, <2>2, InFlight
    <3>2. x[1] # "block" /\ x # <<"ignore", a, b>> /\ x # <<"ignore", b, a>>
      BY <2>2, <3>1 DEF Passed, PastIgnoring, PastIgnored, PastBlock
    <3>. HIDE DEF a, b
    <3>3. \/ x \in {<<"block", a, b>>, <<"block", b, a>>} \cap bars
          \/ x \in {<<"ignore", a, b>>, <<"ignore", b, a>>} \cap bars
          \/ x = <<"nobody", b, b>> /\ policy[b] = "nobody"
      BY <1>1, <3>1, StandingKinds DEF IInv
    <3>. QED
      BY <3>2, <3>3
  <2>. QED
    BY <2>1, <2>2 DEF BarriersHold
<1>. QED
  BY <1>1, Invariance, PTL

\* Once a request has swept, no invite that had expired when it came in is left.
THEOREM ExpiredForgotten == Spec => []ExpiredInvitesForgotten
<1>1. ASSUME IInv PROVE ExpiredInvitesForgotten
  <2>1. ASSUME NEW r \in Requests, req[r].pc # "idle", req[r].pc \in PastSweep
        PROVE  req[r].old = {}
    BY <1>1, <2>1, InFlight DEF Passed
  <2>. QED
    BY <2>1 DEF ExpiredInvitesForgotten, PastSweep, PastIgnoring, PastIgnored, PastBlock
<1>. QED
  BY <1>1, Invariance, PTL

-----------------------------------------------------------------------------
(* The cap on outstanding requests *)

\* The slots that have been counted for a and have not inserted yet.
Writing(a) == {r \in Requests : req[r].pc = "insert" /\ req[r].me = a}

\* What a has pending and about to be pending.  The count is below the cap when a slot
\* joins, and then there are at most as many such slots as there are slots.
CapInv ==
    \A a \in Users :
        /\ IsFiniteSet(Outgoing(a))
        /\ Cardinality(Outgoing(a)) + Cardinality(Writing(a))
               < MaxOutgoing + Cardinality(Requests)

\* No slot joins those about to insert.
NoneJoins ==
    \A q \in Requests :
        req'[q].pc = "insert" => req[q].pc = "insert" /\ req'[q].me = req[q].me

\* No invite is added.
NoneAdded ==
    \A p \in Pairs :
        row'[p].st = "pending" => row[p].st = "pending" /\ row'[p].by = row[p].by

\* Without a joiner or a new invite, no account comes closer to its cap.
LEMMA CapShrinks ==
    ASSUME CapInv, IsFiniteSet(Requests), FriendshipConstants, NoneJoins, NoneAdded
    PROVE  CapInv'
<1>1. ASSUME NEW a \in Users
      PROVE  /\ IsFiniteSet(Outgoing(a))'
             /\ Cardinality(Outgoing(a)') + Cardinality(Writing(a)')
                    < MaxOutgoing + Cardinality(Requests)
  <2>1. Outgoing(a)' \subseteq Outgoing(a) /\ Writing(a)' \subseteq Writing(a)
    BY DEF NoneJoins, NoneAdded, Outgoing, Writing
  <2>2. IsFiniteSet(Outgoing(a)) /\ IsFiniteSet(Writing(a))
    BY FS_Subset DEF CapInv, Writing
  <2>3. /\ IsFiniteSet(Outgoing(a)') /\ Cardinality(Outgoing(a)') <= Cardinality(Outgoing(a))
        /\ IsFiniteSet(Writing(a)') /\ Cardinality(Writing(a)') <= Cardinality(Writing(a))
    BY <2>1, <2>2, FS_Subset
  <2>4. /\ Cardinality(Outgoing(a)) \in Nat /\ Cardinality(Outgoing(a)') \in Nat
        /\ Cardinality(Writing(a)) \in Nat /\ Cardinality(Writing(a)') \in Nat
        /\ Cardinality(Requests) \in Nat /\ MaxOutgoing \in Nat
    BY <2>2, <2>3, FS_CardinalityType DEF FriendshipConstants
  <2>5. Cardinality(Outgoing(a)) + Cardinality(Writing(a))
            < MaxOutgoing + Cardinality(Requests)
    BY DEF CapInv
  <2>. QED
    BY <2>3, <2>4, <2>5
<1>. QED
  BY <1>1 DEF CapInv

\* The steps of slot r that do not lead to an insert.
LEMMA StepJoins ==
    ASSUME TypeOK, NEW r \in Requests, NEW s \in Slot, s.pc # "insert", NEW ps, Step(r, s, ps)
    PROVE  NoneJoins
  BY StepFacts DEF Forgets, NoneJoins

\* No request that finishes is on its way to an insert, ...
LEMMA FinishJoins ==
    ASSUME TypeOK, NEW r \in Requests, Finish(r)
    PROVE  NoneJoins
  BY IdleSound, StepJoins DEF Sound, Idle, Finish

\* ... none that goes on to another stage, ...
LEMMA GotoJoins ==
    ASSUME TypeOK, NEW r \in Requests, NEW pc \in PC \ {"insert"}, Goto(r, pc)
    PROVE  NoneJoins
<1>1. [req[r] EXCEPT !.pc = pc] \in Slot /\ [req[r] EXCEPT !.pc = pc].pc = pc
  BY DEF TypeOK, Slot
<1>. QED
  BY <1>1, StepJoins DEF Goto

\* ... and none that passes a check on the way to another stage.
LEMMA WavedJoins ==
    ASSUME TypeOK, NEW r \in Requests, NEW pc \in PC \ {"insert"}, Waved(r, pc)
    PROVE  NoneJoins
<1>1. [req[r] EXCEPT !.pc = pc, !.since = {}] \in Slot
      /\ [req[r] EXCEPT !.pc = pc, !.since = {}].pc = pc
  BY DEF TypeOK, Slot
<1>. QED
  BY <1>1, StepJoins DEF Waved

\* Unchanged or deleted rows add no invite.
LEMMA RowsAdd ==
    ASSUME (UNCHANGED row) \/ (\E ps : Delete(ps))
    PROVE  NoneAdded
  BY DEF NoneAdded, Delete, NoRow

\* An accepted row is no invite.
LEMMA AcceptedAdds ==
    ASSUME TypeOK, NEW p, row' = [row EXCEPT ![p] = Accepted]
    PROVE  NoneAdded
<1>1. Accepted.st # "pending"
  BY DEF Accepted
<1>2. ASSUME NEW q \in Pairs PROVE row'[q] = row[q] \/ row'[q] = Accepted
  BY DEF TypeOK
<1>. QED
  BY <1>1, <1>2 DEF NoneAdded

\* The steps of a request that only read bring nobody closer to the cap.
LEMMA ReadsJoin ==
    ASSUME IInv, NEW r \in Requests,
           \/ CheckBlock(r) \/ CheckIgnored(r) \/ CheckIgnoring(r)
           \/ ReadPolicy(r) \/ Select(r) \/ ReadMine(r) \/ ReadTheirs(r)
    PROVE  NoneJoins /\ NoneAdded
<1>0. TypeOK /\ req[r] \in Slot /\ req[r].pc # "idle"
  BY DEF IInv, TypeOK, CheckBlock, CheckIgnored, CheckIgnoring, ReadPolicy, Select,
         ReadMine, ReadTheirs
<1>1. NoneAdded
  BY RowsAdd DEF CheckBlock, CheckIgnored, CheckIgnoring, HasIgnored, ReadPolicy, Select, ReadMine,
         ReadTheirs, tables
<1>2. CASE CheckBlock(r) \/ CheckIgnored(r) \/ CheckIgnoring(r)
  BY <1>0, <1>1, <1>2, GotoJoins, WavedJoins, FinishJoins
  DEF CheckBlock, CheckIgnored, CheckIgnoring, HasIgnored, PC
<1>3. CASE ReadPolicy(r)
  <2>1. [req[r] EXCEPT !.pc = "select", !.pol = policy[req[r].other]] \in Slot
    BY <1>0, InFlight DEF Slot, PC, TypeOK
  <2>2. [req[r] EXCEPT !.pc = "select", !.pol = policy[req[r].other]].pc = "select"
    BY <1>0 DEF Slot
  <2>3. CASE Step(r, [req[r] EXCEPT !.pc = "select", !.pol = policy[req[r].other]], {})
    BY <1>0, <1>1, <2>1, <2>2, <2>3, StepJoins
  <2>4. CASE Waved(r, "select")
    BY <1>0, <1>1, <2>4, WavedJoins DEF PC
  <2>. QED
    BY <1>3, <2>3, <2>4 DEF ReadPolicy
<1>4. CASE Select(r)
  <2>. DEFINE p == {req[r].me, req[r].other}
              s == [req[r] EXCEPT !.pc = "accept", !.pol = "everyone", !.seen = consent[p]]
              t == [req[r] EXCEPT !.pc = "mine", !.pol = "everyone"]
  <2>1. s \in Slot /\ s.pc = "accept" /\ t \in Slot /\ t.pc = "mine"
    BY <1>0, InFlight DEF Slot, PC, TypeOK, Policies
  <2>. HIDE DEF s, t
  <2>2. Step(r, s, {}) \/ Step(r, t, {}) \/ Finish(r) \/ Goto(r, "count")
    BY <1>4 DEF Select, s, t
  <2>. QED
    BY <1>0, <1>1, <2>1, <2>2, StepJoins, FinishJoins, GotoJoins DEF PC
<1>5. CASE ReadMine(r) \/ ReadTheirs(r)
  <2>. DEFINE s == [req[r] EXCEPT !.pc = "theirs", !.mine = friend_ids(req[r].me)]
              t == [req[r] EXCEPT !.pc = "count", !.mine = {}]
  <2>1. s \in Slot /\ s.pc = "theirs" /\ t \in Slot /\ t.pc = "count"
    BY <1>0 DEF Slot, PC, friend_ids
  <2>. HIDE DEF s, t
  <2>2. Step(r, s, {}) \/ Step(r, t, {}) \/ Finish(r)
    BY <1>5 DEF ReadMine, ReadTheirs, s, t
  <2>. QED
    BY <1>0, <1>1, <2>1, <2>2, StepJoins, FinishJoins
<1>. QED
  BY <1>2, <1>3, <1>4, <1>5

\* Nor does any other step of a handler but the count and the insert.
LEMMA WritesJoin ==
    ASSUME IInv, NEW r \in Requests,
           Sweep(r) \/ CounterAccept(r) \/ Abort(r) \/ Mute(r) \/ Bar(r)
    PROVE  NoneJoins /\ NoneAdded
<1>0. TypeOK /\ req[r] \in Slot /\ Idle \in Slot /\ Idle.pc = "idle"
  BY IdleSound DEF IInv, TypeOK, Sound, Idle
<1>1. CASE Sweep(r)
  <2>. DEFINE s == [req[r] EXCEPT !.pc = "policy"]
              t == [req[r] EXCEPT !.pc = "policy", !.old = {}]
  <2>1. s \in Slot /\ s.pc = "policy" /\ t \in Slot /\ t.pc = "policy"
    BY <1>0 DEF Slot, PC
  <2>. HIDE DEF s, t
  <2>2. Step(r, s, Stale) \/ Step(r, t, {})
    BY <1>1 DEF Sweep, s, t
  <2>3. UNCHANGED row \/ Delete(Stale)
    BY <1>1 DEF Sweep
  <2>. QED
    BY <1>0, <2>1, <2>2, <2>3, StepJoins, RowsAdd
<1>2. CASE CounterAccept(r)
  <2>. DEFINE p == {req[r].me, req[r].other}
  <2>1. Step(r, Idle, {p}) \/ Step(r, Idle, {})
    BY <1>2 DEF CounterAccept, Finish
  <2>2. UNCHANGED row \/ row' = [row EXCEPT ![p] = Accepted]
    BY <1>2 DEF CounterAccept
  <2>3. NoneAdded
    BY <1>0, <2>2, AcceptedAdds DEF NoneAdded
  <2>. QED
    BY <1>0, <2>1, <2>3, StepJoins
<1>3. CASE Abort(r) \/ Mute(r) \/ Bar(r)
  BY <1>0, <1>3, FinishJoins, RowsAdd DEF Abort, Mute, Bar, tables
<1>. QED
  BY <1>1, <1>2, <1>3

\* Nor a request, a block or an ignore as it starts.
LEMMA StartsJoin ==
    ASSUME IInv, NEW r \in Requests, NEW a \in Users, NEW b \in Users,
           Ask(r, a, b) \/ Ignore(r, a, b) \/ Block(r, a, b)
    PROVE  NoneJoins /\ NoneAdded
<1>0. TypeOK
  BY DEF IInv
<1>. DEFINE s == [Idle EXCEPT !.pc = "block", !.me = a, !.other = b,
                              !.since = Standing(a, b), !.old = Stale]
            t(pc) == [Idle EXCEPT !.pc = pc, !.me = a, !.other = b]
<1>1. s \in Slot /\ s.pc = "block"
  <2>1. Standing(a, b) \subseteq Barrier
    BY DEF Standing, Barrier, IInv, TypeOK
  <2>. QED
    BY <2>1 DEF Idle, Slot, PC, Policies, Stale
<1>2. \A pc \in {"mute", "bar"} : t(pc) \in Slot /\ t(pc).pc = pc
  BY DEF Idle, Slot, PC, Policies
<1>. HIDE DEF s, t
<1>3. \/ Step(r, s, {})
      \/ \E pc \in {"mute", "bar"} : \E ps : Step(r, t(pc), ps)
  BY DEF Ask, Ignore, Block, s, t
<1>4. NoneJoins
  BY <1>0, <1>1, <1>2, <1>3, StepJoins
<1>5. UNCHANGED row \/ \E ps : Delete(ps)
  BY DEF Ask, Ignore, Block, tables
<1>. QED
  BY <1>4, <1>5, RowsAdd

\* Nor an answer, a change of barriers, an expiry or a listing.
LEMMA OthersJoin ==
    ASSUME IInv,
           \/ \E a, b \in Users : Accept(a, b) \/ Remove(a, b) \/ SetIgnore(a, b)
           \/ \E k \in {"block", "ignore"}, a, b \in Users : Unbar(k, a, b)
           \/ \E a \in Users, p \in Policies : SetPolicy(a, p)
           \/ \E p \in Pairs : Expire(p)
           \/ List
           \/ UNCHANGED vars
    PROVE  NoneJoins /\ NoneAdded
<1>1. NoneJoins
  <2>1. \/ \E ps : req' = [q \in Requests |-> Without(req[q], ps)]
        \/ \E x : req' = Lifted(x)
        \/ UNCHANGED req
    BY DEF Accept, Remove, SetIgnore, Unbar, SetPolicy, Expire, List, vars
  <2>2. \A q \in Requests : req'[q].pc = req[q].pc /\ req'[q].me = req[q].me
    <3>1. \A q \in Requests : req[q] \in Slot
      BY DEF IInv, TypeOK
    <3>2. CASE \E ps : req' = [q \in Requests |-> Without(req[q], ps)]
      BY <3>1, <3>2, WithoutForgets DEF Forgets
    <3>3. CASE \E x : req' = Lifted(x)
      <4>1. PICK x : req' = Lifted(x)
        BY <3>3
      <4>2. ASSUME NEW q \in Requests
            PROVE  req'[q].pc = req[q].pc /\ req'[q].me = req[q].me
        BY <3>1, <4>1 DEF Lifted, Slot
      <4>. QED
        BY <4>2
    <3>. QED
      BY <2>1, <3>2, <3>3
  <2>. QED
    BY <2>2 DEF NoneJoins
<1>2. CASE \E a, b \in Users : Accept(a, b)
  BY <1>1, <1>2, AcceptedAdds DEF Accept, IInv
<1>3. CASE \E p \in Pairs : Expire(p)
  <2>1. PICK p \in Pairs : row' = [row EXCEPT ![p].stale = TRUE]
    BY <1>3 DEF Expire
  <2>2. \A q \in Pairs : row'[q].st = row[q].st /\ row'[q].by = row[q].by
    BY <2>1 DEF IInv, TypeOK, Row
  <2>. QED
    BY <1>1, <2>2 DEF NoneAdded
<1>4. CASE UNCHANGED row \/ \E ps : Delete(ps)
  BY <1>1, <1>4, RowsAdd
<1>. QED
  BY <1>1, <1>2, <1>3, <1>4 DEF Remove, SetIgnore, Unbar, SetPolicy, List, vars

\* A request is counted: its sender is below the cap, and as many may join as there are slots.
LEMMA CountCap ==
    ASSUME IInv, CapInv, ~CountFails, IsFiniteSet(Requests), NEW r \in Requests, Count(r)
    PROVE  CapInv'
<1>0. TypeOK /\ UNCHANGED row /\ req[r] \in Slot /\ req[r].me \in Users
  BY InFlight DEF IInv, TypeOK, Count, tables
<1>1. CASE Finish(r)
  BY <1>0, <1>1, FinishJoins, RowsAdd, CapShrinks, FriendshipConstants
<1>2. CASE ~(Cardinality(Outgoing(req[r].me)) >= MaxOutgoing) /\ Goto(r, "insert")
  <2>1. /\ \A q \in Requests \ {r} : req'[q].pc = req[q].pc /\ req'[q].me = req[q].me
        /\ req'[r].me = req[r].me
    <3>. DEFINE s == [req[r] EXCEPT !.pc = "insert"]
    <3>1. s \in Slot /\ s.me = req[r].me
      BY <1>0 DEF Slot, PC
    <3>2. Step(r, s, {})
      BY <1>2 DEF Goto
    <3>. HIDE DEF s
    <3>. QED
      BY <1>0, <3>1, <3>2, StepFacts DEF Forgets
  <2>2. ASSUME NEW a \in Users
        PROVE  /\ IsFiniteSet(Outgoing(a)')
               /\ Cardinality(Outgoing(a)') + Cardinality(Writing(a)')
                      < MaxOutgoing + Cardinality(Requests)
    <3>1. Outgoing(a)' = Outgoing(a) /\ IsFiniteSet(Outgoing(a))
      BY <1>0 DEF Outgoing, CapInv
    <3>2. /\ Cardinality(Outgoing(a)) \in Nat /\ Cardinality(Requests) \in Nat
          /\ MaxOutgoing \in Nat
      BY <3>1, FS_CardinalityType, FriendshipConstants DEF FriendshipConstants
    <3>3. CASE a = req[r].me
      <4>1. Cardinality(Writing(a)') <= Cardinality(Requests) /\ Cardinality(Writing(a)') \in Nat
        BY FS_Subset, FS_CardinalityType DEF Writing
      <4>2. Cardinality(Outgoing(a)) < MaxOutgoing
        BY <1>2, <3>2, <3>3
      <4>. QED
        BY <3>1, <3>2, <4>1, <4>2
    <3>4. CASE a # req[r].me
      <4>1. Writing(a)' = Writing(a)
        BY <2>1, <3>4 DEF Writing
      <4>. QED
        BY <3>1, <4>1 DEF CapInv
    <3>. QED
      BY <3>3, <3>4
  <2>. QED
    BY <2>2 DEF CapInv
<1>. QED
  BY <1>1, <1>2 DEF Count

\* One element makes a finite set larger by one at most.
LEMMA OneMore ==
    ASSUME NEW S, IsFiniteSet(S), NEW x
    PROVE  IsFiniteSet(S \cup {x}) /\ Cardinality(S \cup {x}) <= Cardinality(S) + 1
<1>1. Cardinality(S) \in Nat
  BY FS_CardinalityType
<1>2. CASE x \in S
  <2>1. S \cup {x} = S
    BY <1>2
  <2>2. IsFiniteSet(S \cup {x}) /\ Cardinality(S \cup {x}) = Cardinality(S)
    BY <2>1, Zenon
  <2>. QED
    BY <1>1, <2>2
<1>3. CASE x \notin S
  <2>1. IsFiniteSet(S \cup {x}) /\ Cardinality(S \cup {x}) = Cardinality(S) + 1
    BY <1>3, FS_AddElement
  <2>. QED
    BY <1>1, <2>1
<1>. QED
  BY <1>2, <1>3

\* An insert adds one invite to its sender's, and leaves those about to insert.
LEMMA InsertCap ==
    ASSUME IInv, CapInv, IsFiniteSet(Requests), NEW r \in Requests, Insert(r)
    PROVE  CapInv'
<1>. DEFINE p == {req[r].me, req[r].other}
            me == req[r].me
<1>0. /\ TypeOK /\ Finish(r) /\ req[r].pc = "insert" /\ me \in Users /\ p \in Pairs
      /\ Idle \in Slot /\ Idle.pc = "idle"
  BY InFlight, IdleSound DEF IInv, Insert, Sound, Idle
<1>1. CASE UNCHANGED row
  BY <1>0, <1>1, FinishJoins, RowsAdd, CapShrinks, FriendshipConstants
<1>2. CASE row' = [row EXCEPT ![p] = [st |-> "pending", by |-> me, stale |-> FALSE]]
  <2>1. /\ req'[r].pc = "idle"
        /\ \A q \in Requests \ {r} : req'[q].pc = req[q].pc /\ req'[q].me = req[q].me
    BY <1>0, StepFacts DEF Forgets, Finish
  <2>2. /\ row'[p].st = "pending" /\ row'[p].by = me
        /\ \A q \in Pairs \ {p} : row'[q] = row[q]
    BY <1>0, <1>2 DEF TypeOK
  <2>3. ASSUME NEW a \in Users
        PROVE  /\ IsFiniteSet(Outgoing(a)')
               /\ Cardinality(Outgoing(a)') + Cardinality(Writing(a)')
                      < MaxOutgoing + Cardinality(Requests)
    <3>1. IsFiniteSet(Outgoing(a)) /\ IsFiniteSet(Writing(a))
      BY FS_Subset DEF CapInv, Writing
    <3>2. Outgoing(a)' \subseteq Outgoing(a) \cup {p} /\ Writing(a)' = Writing(a) \ {r}
      BY <1>0, <2>1, <2>2 DEF Outgoing, Writing
    <3>3. /\ IsFiniteSet(Outgoing(a) \cup {p})
          /\ Cardinality(Outgoing(a) \cup {p}) <= Cardinality(Outgoing(a)) + 1
      BY <3>1, OneMore
    <3>4. IsFiniteSet(Outgoing(a)')
          /\ Cardinality(Outgoing(a)') <= Cardinality(Outgoing(a) \cup {p})
      BY <3>2, <3>3, FS_Subset
    <3>5. /\ Cardinality(Outgoing(a)) \in Nat /\ Cardinality(Outgoing(a)') \in Nat
          /\ Cardinality(Writing(a)) \in Nat /\ Cardinality(Writing(a)') \in Nat
          /\ Cardinality(Outgoing(a) \cup {p}) \in Nat
          /\ Cardinality(Requests) \in Nat /\ MaxOutgoing \in Nat
      <4>1. IsFiniteSet(Writing(a)')
        BY <3>1, <3>2, FS_Subset
      <4>. QED
        BY <3>1, <3>3, <3>4, <4>1, FS_CardinalityType, FriendshipConstants
        DEF FriendshipConstants
    <3>6. Cardinality(Outgoing(a)) + Cardinality(Writing(a))
              < MaxOutgoing + Cardinality(Requests)
      BY DEF CapInv
    <3>7. CASE a = me
      <4>1. r \in Writing(a)
        BY <1>0, <3>7 DEF Writing
      <4>2. Cardinality(Writing(a)') = Cardinality(Writing(a)) - 1
        BY <3>1, <3>2, <4>1, FS_RemoveElement
      <4>. QED
        BY <3>3, <3>4, <3>5, <3>6, <4>2
    <3>8. CASE a # me
      <4>1. Outgoing(a)' \subseteq Outgoing(a)
        BY <1>0, <2>2, <3>8 DEF Outgoing
      <4>2. Cardinality(Outgoing(a)') <= Cardinality(Outgoing(a))
        BY <3>1, <4>1, FS_Subset
      <4>3. Cardinality(Writing(a)') <= Cardinality(Writing(a))
        BY <3>1, <3>2, FS_Subset
      <4>. QED
        BY <3>4, <3>5, <3>6, <4>2, <4>3
    <3>. QED
      BY <3>7, <3>8
  <2>. QED
    BY <2>3 DEF CapInv
<1>. QED
  BY <1>1, <1>2 DEF Insert

\* The cap holds up to the number of slots, while counts can be read.
THEOREM OvershootBounded ==
    ASSUME IsFiniteSet(Requests), Requests # {}
    PROVE  Spec => []OutgoingOvershootBounded
<1>1. Init => CapInv
  <2>. SUFFICES ASSUME Init, NEW a \in Users
                PROVE  /\ IsFiniteSet(Outgoing(a))
                       /\ Cardinality(Outgoing(a)) + Cardinality(Writing(a))
                              < MaxOutgoing + Cardinality(Requests)
    BY DEF CapInv
  <2>1. Outgoing(a) = {} /\ Writing(a) = {}
    BY DEF Init, Outgoing, Writing, NoRow, Idle
  <2>2. Cardinality(Requests) \in Nat /\ Cardinality(Requests) # 0 /\ MaxOutgoing \in Nat
    BY FS_CardinalityType, FS_EmptySet, FriendshipConstants DEF FriendshipConstants
  <2>. QED
    BY <2>1, <2>2, FS_EmptySet
<1>2. ~CountFails /\ IInv /\ CapInv /\ [Next]_vars => CapInv'
  <2>. SUFFICES ASSUME ~CountFails, IInv, CapInv, [Next]_vars PROVE CapInv'
    OBVIOUS
  <2>1. ASSUME NEW r \in Requests, Handler(r)
        PROVE  CapInv'
    BY <2>1, ReadsJoin, WritesJoin, CapShrinks, CountCap, InsertCap, FriendshipConstants
    DEF Handler
  <2>2. ASSUME NEW r \in Requests, NEW a \in Users, NEW b \in Users,
               Ask(r, a, b) \/ Ignore(r, a, b) \/ Block(r, a, b)
        PROVE  CapInv'
    BY <2>2, StartsJoin, CapShrinks, FriendshipConstants
  <2>3. CASE \/ \E a, b \in Users : Accept(a, b) \/ Remove(a, b) \/ SetIgnore(a, b)
             \/ \E k \in {"block", "ignore"}, a, b \in Users : Unbar(k, a, b)
             \/ \E a \in Users, p \in Policies : SetPolicy(a, p)
             \/ \E p \in Pairs : Expire(p)
             \/ List
             \/ UNCHANGED vars
    BY <2>3, OthersJoin, CapShrinks, FriendshipConstants
  <2>. QED
    BY <2>1, <2>2, <2>3 DEF Next
<1>3. ASSUME CapInv PROVE OutgoingOvershootBounded
  <2>. SUFFICES ASSUME NEW a \in Users
                PROVE  Cardinality(Outgoing(a)) < MaxOutgoing + Cardinality(Requests)
    BY DEF OutgoingOvershootBounded
  <2>1. /\ Cardinality(Outgoing(a)) \in Nat /\ Cardinality(Writing(a)) \in Nat
        /\ Cardinality(Requests) \in Nat /\ MaxOutgoing \in Nat
    BY <1>3, FS_Subset, FS_CardinalityType, FriendshipConstants
    DEF CapInv, Writing, FriendshipConstants
  <2>. QED
    BY <1>3, <2>1 DEF CapInv
<1>4. CASE CountFails
  <2>1. OutgoingOvershootBounded
    BY <1>4 DEF OutgoingOvershootBounded
  <2>. QED
    BY <2>1, PTL
<1>5. CASE ~CountFails
  <2>1. IInv /\ CapInv /\ [Next]_vars => CapInv'
    BY <1>2, <1>5
  <2>. QED
    BY <1>1, <2>1, <1>3, Invariance, PTL DEF Spec
<1>. QED
  BY <1>4, <1>5
=============================================================================
