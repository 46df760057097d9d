-------------------------- MODULE Services_proofs --------------------------
(***************************************************************************)
(* Proofs about the components that share no state with each other, each   *)
(* about the specification of one of them, for any accounts, tokens,       *)
(* devices, handlers in flight and bounds.  At the end, that a behaviour   *)
(* of MCServices is one of all of them.                                    *)
(***************************************************************************)
EXTENDS MCServices, FiniteSetTheorems, TLAPS

-----------------------------------------------------------------------------
(* Push tokens *)

Sending ==
    [pc : {"idle", "access", "sending"}, left : SUBSET (Holders \X Tokens), delivered : BOOLEAN]

\* Registering and forgetting a token keep the types of what they write.
LEMMA PushTableTypes ==
    ASSUME PushTypeOK, NEW u \in Holders, NEW t \in Tokens,
           \/ Claim(u, t) \/ Register(u, t) \/ RegisterFails(u, t) \/ Unregister(u, t)
    PROVE  PushTypeOK'
<1>. USE DEF PushTypeOK, Sending
<1>1. {x \in Holders \X {t} : x[1] # u} \subseteq Holders \X Tokens
    OBVIOUS
<1>2. <<u, t>> \in Holders \X Tokens
    OBVIOUS
<1>3. send' = send /\ alive' = alive
    BY DEF Claim, Register, RegisterFails, Unregister
<1>4. owner' \in [Tokens -> Holders \cup {Nobody}]
    BY DEF Claim, Register, RegisterFails, Unregister, forget_push_token
<1>5. claim' \in [Tokens -> SUBSET Holders]
    BY DEF Claim, Register, RegisterFails, Unregister
<1>6. gone' \in SUBSET (Holders \X Tokens)
    <2>1. CASE Claim(u, t)
        BY <1>1, <2>1 DEF Claim
    <2>2. CASE Register(u, t)
        BY <1>1, <2>2 DEF Register
    <2>3. CASE RegisterFails(u, t)
        BY <2>3 DEF RegisterFails
    <2>4. CASE Unregister(u, t)
        BY <1>2, <2>4 DEF Unregister, forget_push_token
    <2>. QED  BY <2>1, <2>2, <2>3, <2>4
<1>. QED  BY <1>3, <1>4, <1>5, <1>6

\* So does every step of a send: the list it works through is of owned tokens.
LEMMA PushSendTypes ==
    ASSUME PushTypeOK, NEW s \in Sends,
           \/ AccessToken(s) \/ EndSend(s)
           \/ StartSend(s, Holders)
           \/ \E u \in Holders : StartSend(s, {u})
           \/ \E u \in Holders, t \in Tokens : SendOne(s, u, t)
    PROVE  PushTypeOK'
<1>. USE DEF PushTypeOK
<1>0. send[s] \in Sending /\ NoSend \in Sending
    BY DEF Sending, NoSend
<1>1. send \in [Sends -> Sending]
    BY DEF Sending
<1>2. CASE AccessToken(s)
    <2>1. [send[s] EXCEPT !.pc = "sending"] \in Sending
        BY <1>0 DEF Sending
    <2>2. send' \in [Sends -> Sending]
        BY <1>0, <1>1, <1>2, <2>1 DEF AccessToken
    <2>. QED  BY <1>2, <2>2 DEF AccessToken, Sending
<1>3. CASE EndSend(s)
    <2>1. send' \in [Sends -> Sending]
        BY <1>0, <1>1, <1>3 DEF EndSend
    <2>. QED  BY <1>3, <2>1 DEF EndSend, Sending
<1>4. ASSUME NEW us \in SUBSET Holders, StartSend(s, us)
      PROVE  PushTypeOK'
    <2>1. load_push_tokens(us) \in SUBSET (Holders \X Tokens)
        BY DEF load_push_tokens
    <2>2. [pc |-> "access", left |-> load_push_tokens(us), delivered |-> FALSE] \in Sending
        BY <2>1 DEF Sending
    <2>3. send' \in [Sends -> Sending]
        BY <1>1, <1>4, <2>2 DEF StartSend
    <2>. QED  BY <1>4, <2>3 DEF StartSend, Sending
<1>5. ASSUME NEW u \in Holders, NEW t \in Tokens, SendOne(s, u, t)
      PROVE  PushTypeOK'
    <2>1. [send[s] EXCEPT !.left = @ \ {<<u, t>>}] \in Sending
          /\ [send[s] EXCEPT !.left = @ \ {<<u, t>>}, !.delivered = TRUE] \in Sending
        BY <1>0 DEF Sending
    <2>2. send' \in [Sends -> Sending]
        BY <1>1, <1>5, <2>1 DEF SendOne
    <2>3. owner' \in [Tokens -> Holders \cup {Nobody}]
        BY <1>5 DEF SendOne, forget_push_token
    <2>4. <<u, t>> \in Holders \X Tokens
        OBVIOUS
    <2>5. gone' \in SUBSET (Holders \X Tokens)
        BY <1>5, <2>4 DEF SendOne, forget_push_token
    <2>. QED  BY <1>5, <2>2, <2>3, <2>5 DEF SendOne, Sending
<1>. QED
    BY <1>2, <1>3, <1>4, <1>5

\* The types of the tokens and the sends are those of the model.
THEOREM PushTypes == PushSpec => []PushTypeOK
<1>1. PushInit => PushTypeOK
    BY DEF PushInit, PushTypeOK, NoSend
<1>2. PushTypeOK /\ [PushNext]_pushVars => PushTypeOK'
    <2>. SUFFICES ASSUME PushTypeOK, [PushNext]_pushVars PROVE PushTypeOK'
        OBVIOUS
    <2>1. CASE UNCHANGED pushVars
        BY <2>1 DEF pushVars, PushTypeOK
    <2>2. ASSUME NEW t \in Tokens, TokenDies(t) PROVE PushTypeOK'
        BY <2>2 DEF TokenDies, PushTypeOK
    <2>. QED
        BY <2>1, <2>2, PushTableTypes, PushSendTypes DEF PushNext
<1>. QED  BY <1>1, <1>2, PTL DEF PushSpec

\* A row of push_tokens is there exactly as long as its own account has not given the
\* token up, FCM has not called it dead for that account and nobody else has claimed it.
THEOREM TokensStay == PushSpec => []RegisteredStays
<1>1. PushInit => RegisteredStays
    BY PushConstants DEF PushInit, RegisteredStays
<1>2. PushTypeOK /\ RegisteredStays /\ [PushNext]_pushVars => RegisteredStays'
    <2>. SUFFICES ASSUME PushTypeOK, RegisteredStays, [PushNext]_pushVars PROVE RegisteredStays'
        OBVIOUS
    <2>. USE DEF RegisteredStays, PushTypeOK
    <2>0. CASE UNCHANGED <<owner, gone>>
        BY <2>0
    <2>a. \A u \in Holders, t \in Tokens : \A v \in Holders, q \in Tokens :
              <<v, q>> \in {x \in Holders \X {t} : x[1] # u} <=> q = t /\ v # u
        OBVIOUS
    <2>1. ASSUME NEW u \in Holders, NEW t \in Tokens, Claim(u, t) PROVE RegisteredStays'
        <3>1. ASSUME NEW v \in Holders, NEW q \in Tokens,
                     owner' = [owner EXCEPT ![t] = IF @ = u THEN @ ELSE Nobody],
                     gone' = gone \cup {x \in Holders \X {t} : x[1] # u}
              PROVE  owner'[q] = v <=> <<v, q>> \notin gone'
            <4>1. <<v, q>> \in gone' <=> <<v, q>> \in gone \/ (q = t /\ v # u)
                BY <2>a, <3>1
            <4>. QED  BY <3>1, <4>1, PushConstants
        <3>. QED  BY <2>0, <2>1, <3>1 DEF Claim
    <2>2. ASSUME NEW u \in Holders, NEW t \in Tokens, Register(u, t) PROVE RegisteredStays'
        <3>1. ASSUME NEW v \in Holders, NEW q \in Tokens
              PROVE  owner'[q] = v <=> <<v, q>> \notin gone'
            <4>1. <<v, q>> \in gone' <=> (<<v, q>> \in gone /\ <<v, q>> # <<u, t>>) \/ (q = t /\ v # u)
                BY <2>a, <2>2 DEF Register
            <4>. QED  BY <2>2, <4>1 DEF Register
        <3>. QED  BY <3>1
    <2>3. ASSUME NEW u \in Holders, NEW t \in Tokens, forget_push_token(u, t) PROVE RegisteredStays'
        BY <2>3, PushConstants DEF forget_push_token
    <2>4. \/ UNCHANGED <<owner, gone>>
          \/ \E u \in Holders, t \in Tokens :
                Claim(u, t) \/ Register(u, t) \/ forget_push_token(u, t)
        BY ZenonT(40) DEF PushNext, pushVars, RegisterFails, Unregister, StartSend, AccessToken, SendOne,
               EndSend, TokenDies
    <2>. QED  BY <2>0, <2>1, <2>2, <2>3, <2>4
<1>. QED  BY <1>1, <1>2, PushTypes, PTL DEF PushSpec

-----------------------------------------------------------------------------
(* Cloud saves *)

Upload ==
    [pc : {"idle", "guard", "select", "archive", "prune", "write"}, new : Save,
     guarded : BOOLEAN, base : Mtimes \cup {0}, prior : Save]
Version == [id : Nat, save : Save]

\* The uploads that may still archive what they replace.
Due == {u \in Uploads : up[u].pc \in {"guard", "select", "archive"}}

\* Types; an upload archives at most one version, so there are no more of them than
\* uploads; and what is uploaded, archived or kept in a history is somebody's bytes.
SavesBase ==
    /\ current \in Save
    /\ IsFiniteSet(archive) /\ archive \subseteq Version
    /\ \A v \in archive : v.id \in 1 .. lastVersion /\ v.save.data # 0
    /\ saveNo \in 0 .. MaxSaves /\ lastVersion \in Nat
    /\ up \in [Uploads -> Upload]
    /\ \A u \in Uploads : up[u].pc # "idle" => up[u].new.data # 0
    /\ \A u \in Uploads : up[u].pc = "archive" => up[u].prior.data # 0
    /\ stored \cup evicted \cup raced \subseteq 1 .. MaxSaves
    /\ IsFiniteSet(Due) /\ lastVersion + Cardinality(Due) <= saveNo

\* The bytes d are archived, or newer versions have pushed them out.
Archived(d) == d \in evicted \/ \E v \in archive : v.save.data = d

\* What an upload has read it has archived once it is past that statement.
PriorArchived ==
    \A u \in Uploads : up[u].pc \in {"prune", "write"} /\ up[u].prior.data # 0
                         => Archived(up[u].prior.data)

\* What every upload's step does to the uploads that are due: one joins, stays or leaves.
LEMMA DueMoves ==
    ASSUME SavesBase, NEW u \in Uploads, NEW x \in Upload, up' = [up EXCEPT ![u] = x]
    PROVE  /\ Due' = IF x.pc \in {"guard", "select", "archive"} THEN Due \cup {u} ELSE Due \ {u}
           /\ IsFiniteSet(Due') /\ Cardinality(Due') \in Nat /\ Cardinality(Due) \in Nat
           /\ x.pc \in {"guard", "select", "archive"} =>
                Cardinality(Due') = IF u \in Due THEN Cardinality(Due) ELSE Cardinality(Due) + 1
           /\ x.pc \notin {"guard", "select", "archive"} =>
                Cardinality(Due') = IF u \in Due THEN Cardinality(Due) - 1 ELSE Cardinality(Due)
<1>1. Due' = IF x.pc \in {"guard", "select", "archive"} THEN Due \cup {u} ELSE Due \ {u}
    BY DEF Due, SavesBase
<1>2. IsFiniteSet(Due)
    BY DEF SavesBase
<1>3. /\ IsFiniteSet(Due \cup {u}) /\ IsFiniteSet(Due \ {u})
      /\ Cardinality(Due \cup {u}) = IF u \in Due THEN Cardinality(Due) ELSE Cardinality(Due) + 1
      /\ Cardinality(Due \ {u}) = IF u \in Due THEN Cardinality(Due) - 1 ELSE Cardinality(Due)
    BY <1>2, FS_AddElement, FS_RemoveElement
<1>4. /\ Cardinality(Due) \in Nat /\ Cardinality(Due \cup {u}) \in Nat /\ Cardinality(Due \ {u}) \in Nat
    BY <1>2, <1>3, FS_CardinalityType
<1>. QED  BY <1>1, <1>3, <1>4

\* An upload or a restore that starts keeps the invariant: it has bytes of its own.
LEMMA SavesStart ==
    ASSUME SavesBase, NEW u \in Uploads, NEW x \in Upload, up' = [up EXCEPT ![u] = x],
           x.pc \in {"guard", "select"}, x.new.data # 0,
           saveNo < MaxSaves, saveNo' = saveNo + 1,
           UNCHANGED <<current, archive, lastVersion, stored, evicted, raced>>
    PROVE  SavesBase'
<1>0. IsFiniteSet(Due') /\ Cardinality(Due) \in Nat /\ Cardinality(Due') \in Nat
      /\ Cardinality(Due') <= Cardinality(Due) + 1
    <2>1. /\ IsFiniteSet(Due') /\ Cardinality(Due') \in Nat /\ Cardinality(Due) \in Nat
          /\ x.pc \in {"guard", "select", "archive"} =>
                Cardinality(Due') = IF u \in Due THEN Cardinality(Due) ELSE Cardinality(Due) + 1
          /\ x.pc \notin {"guard", "select", "archive"} =>
                Cardinality(Due') = IF u \in Due THEN Cardinality(Due) - 1 ELSE Cardinality(Due)
        BY DueMoves
    <2>. QED  BY <2>1
<1>. USE SavesConstants DEF SavesBase
<1>1. saveNo' \in 0 .. MaxSaves
    OBVIOUS
<1>2. up' \in [Uploads -> Upload]
    OBVIOUS
<1>3. \A w \in Uploads : up'[w] = IF w = u THEN x ELSE up[w]
    OBVIOUS
<1>4. IsFiniteSet(Due') /\ lastVersion' + Cardinality(Due') <= saveNo'
    BY <1>0
<1>. QED  BY <1>1, <1>2, <1>3, <1>4

\* So does a handler that goes on, or ends, without writing a table.
LEMMA SavesGoOn ==
    ASSUME SavesBase, NEW u \in Uploads, NEW x \in Upload, up' = [up EXCEPT ![u] = x],
           up[u].pc # "idle",
           x.pc \in {"guard", "select", "archive"} => u \in Due,
           x.pc # "idle" => x.new = up[u].new,
           x.pc = "archive" => x.prior.data # 0,
           UNCHANGED <<current, archive, lastVersion, saveNo, stored, evicted, raced>>
    PROVE  SavesBase'
<1>0. IsFiniteSet(Due') /\ Cardinality(Due) \in Nat /\ Cardinality(Due') \in Nat
      /\ Cardinality(Due') <= Cardinality(Due)
    <2>1. /\ IsFiniteSet(Due') /\ Cardinality(Due') \in Nat /\ Cardinality(Due) \in Nat
          /\ x.pc \in {"guard", "select", "archive"} =>
                Cardinality(Due') = IF u \in Due THEN Cardinality(Due) ELSE Cardinality(Due) + 1
          /\ x.pc \notin {"guard", "select", "archive"} =>
                Cardinality(Due') = IF u \in Due THEN Cardinality(Due) - 1 ELSE Cardinality(Due)
        BY DueMoves
    <2>. QED  BY <2>1
<1>. USE SavesConstants DEF SavesBase
<1>1. up' \in [Uploads -> Upload]
    OBVIOUS
<1>2. \A w \in Uploads : up'[w] = IF w = u THEN x ELSE up[w]
    OBVIOUS
<1>3. IsFiniteSet(Due') /\ lastVersion' + Cardinality(Due') <= saveNo'
    BY <1>0
<1>. QED  BY <1>1, <1>2, <1>3

\* Starting: a new save or a stored version, which has bytes of its own.
LEMMA SavesStarts ==
    ASSUME SavesBase, NEW u \in Uploads,
           \/ \E m \in Mtimes : PutSave(u, m, FALSE, 0) \/ \E b \in Mtimes \cup {0} : PutSave(u, m, TRUE, b)
           \/ \E v \in archive : RestoreVersion(u, v)
    PROVE  SavesBase'
<1>1. NoSave \in Save
    BY SavesConstants DEF NoSave, Save
<1>2. ASSUME NEW m \in Mtimes, NEW b \in Mtimes \cup {0}, NEW g \in BOOLEAN, PutSave(u, m, g, b)
      PROVE  SavesBase'
    <2>. DEFINE x == [NoUpload EXCEPT !.pc = IF g THEN "guard" ELSE "select",
                        !.new = [data |-> saveNo + 1, mtime |-> m], !.guarded = g, !.base = b]
    <2>1. [data |-> saveNo + 1, mtime |-> m] \in Save /\ saveNo + 1 # 0
        <3>1. saveNo \in 0 .. MaxSaves /\ saveNo < MaxSaves /\ MaxSaves \in Nat
            BY <1>2, SavesConstants DEF SavesBase, PutSave
        <3>2. saveNo + 1 \in 0 .. MaxSaves /\ saveNo + 1 # 0
            BY <3>1
        <3>. QED  BY <3>2 DEF Save
    <2>2. x \in Upload /\ x.pc \in {"guard", "select"} /\ x.new.data # 0
        BY <1>1, <2>1 DEF NoUpload, Upload
    <2>3. /\ up' = [up EXCEPT ![u] = x]
          /\ saveNo < MaxSaves /\ saveNo' = saveNo + 1
          /\ UNCHANGED <<current, archive, lastVersion, stored, evicted, raced>>
        BY <1>2 DEF PutSave
    <2>. QED  BY <2>2, <2>3, SavesStart
<1>3. ASSUME NEW v \in archive, RestoreVersion(u, v) PROVE SavesBase'
    <2>. DEFINE x == [NoUpload EXCEPT !.pc = "select", !.new = v.save]
    <2>1. v \in Version /\ v.save.data # 0
        BY DEF SavesBase
    <2>2. v.save \in Save
        BY <2>1 DEF Version
    <2>3. x \in Upload /\ x.pc \in {"guard", "select"} /\ x.new.data # 0
        BY <1>1, <2>1, <2>2 DEF NoUpload, Upload
    <2>4. /\ up' = [up EXCEPT ![u] = x]
          /\ saveNo < MaxSaves /\ saveNo' = saveNo + 1
          /\ UNCHANGED <<current, archive, lastVersion, stored, evicted, raced>>
        BY <1>3 DEF RestoreVersion
    <2>. QED  BY <2>3, <2>4, SavesStart
<1>. QED  BY <1>2, <1>3

\* Going on without writing: the check of the base, the read of the prior save, a failure.
LEMMA SavesReads ==
    ASSUME SavesBase, NEW u \in Uploads, CheckBase(u) \/ SelectPrior(u) \/ UploadFails(u)
    PROVE  SavesBase'
<1>1. up[u] \in Upload /\ current \in Save
    BY DEF SavesBase
<1>2. NoUpload \in Upload /\ NoUpload.pc = "idle"
    BY SavesConstants DEF NoUpload, NoSave, Upload, Save
<1>3. ASSUME up' = [up EXCEPT ![u] = NoUpload], up[u].pc # "idle",
             UNCHANGED <<current, archive, lastVersion, saveNo, stored, evicted, raced>>
      PROVE  SavesBase'
    BY <1>2, <1>3, SavesGoOn
<1>4. CASE CheckBase(u)
    <2>. DEFINE x == [up[u] EXCEPT !.pc = "select"]
    <2>1. x \in Upload /\ x.new = up[u].new /\ x.pc = "select"
        BY <1>1 DEF Upload
    <2>2. u \in Due /\ up[u].pc # "idle"
        BY <1>4 DEF CheckBase, Due
    <2>3. up' = [up EXCEPT ![u] = x] \/ up' = [up EXCEPT ![u] = NoUpload]
        BY <1>1, <1>4 DEF CheckBase, StepTo, SavesBase
    <2>4. UNCHANGED <<current, archive, lastVersion, saveNo, stored, evicted, raced>>
        BY <1>4 DEF CheckBase
    <2>. HIDE DEF x
    <2>. QED  BY <1>3, <2>1, <2>2, <2>3, <2>4, SavesGoOn
<1>5. CASE SelectPrior(u)
    <2>. DEFINE x == [up[u] EXCEPT !.prior = current, !.pc = IF current.data # 0 THEN "archive" ELSE "write"]
    <2>1. x \in Upload /\ x.new = up[u].new /\ (x.pc = "archive" => x.prior.data # 0)
        BY <1>1 DEF Upload
    <2>2. u \in Due /\ up[u].pc # "idle"
        BY <1>5 DEF SelectPrior, Due
    <2>3. up' = [up EXCEPT ![u] = x]
        BY <1>1, <1>5 DEF SelectPrior, SavesBase
    <2>4. UNCHANGED <<current, archive, lastVersion, saveNo, stored, evicted, raced>>
        BY <1>5 DEF SelectPrior
    <2>. HIDE DEF x
    <2>. QED  BY <2>1, <2>2, <2>3, <2>4, SavesGoOn
<1>6. CASE UploadFails(u)
    BY <1>3, <1>6 DEF UploadFails
<1>. QED  BY <1>4, <1>5, <1>6

\* Archiving, pruning and writing.
LEMMA SavesWrites ==
    ASSUME SavesBase, NEW u \in Uploads, ArchivePrior(u) \/ PruneOld(u) \/ WriteSave(u)
    PROVE  SavesBase'
<1>1. up[u] \in Upload /\ up[u].new \in Save /\ up[u].prior \in Save
    BY DEF SavesBase, Upload
<1>2. NoUpload \in Upload /\ NoUpload.pc = "idle"
    BY SavesConstants DEF NoUpload, NoSave, Upload, Save
<1>3. CASE ArchivePrior(u)
    <2>. DEFINE x == [up[u] EXCEPT !.pc = "prune"]
                v == [id |-> lastVersion + 1, save |-> up[u].prior]
    <2>1. x \in Upload /\ x.new = up[u].new /\ x.pc = "prune"
        BY <1>1 DEF Upload
    <2>2. u \in Due /\ up[u].pc = "archive"
        BY <1>3 DEF ArchivePrior, Due
    <2>3. up' = [up EXCEPT ![u] = x] /\ archive' = archive \cup {v} /\ lastVersion' = lastVersion + 1
          /\ UNCHANGED <<current, saveNo, stored, evicted, raced>>
        BY <1>1, <1>3 DEF ArchivePrior, StepTo, SavesBase
    <2>4. v \in Version /\ v.id = lastVersion + 1 /\ v.save.data # 0 /\ lastVersion \in Nat
        BY <1>1, <2>2 DEF SavesBase, Version
    <2>. HIDE DEF x, v
    <2>5. IsFiniteSet(archive')
        BY <2>3, FS_AddElement DEF SavesBase
    <2>6. \A w \in archive' : w \in Version /\ w.id \in 1 .. lastVersion' /\ w.save.data # 0
        <3>1. \A w \in archive : w \in Version /\ w.id \in 1 .. lastVersion /\ w.save.data # 0
            BY DEF SavesBase
        <3>. QED  BY <2>3, <2>4, <3>1
    <2>7. IsFiniteSet(Due') /\ Cardinality(Due') \in Nat /\ Cardinality(Due) \in Nat
          /\ Cardinality(Due') = Cardinality(Due) - 1
        BY <2>1, <2>2, <2>3, DueMoves
    <2>8. lastVersion' + Cardinality(Due') <= saveNo'
        BY <2>3, <2>4, <2>7 DEF SavesBase
    <2>9. \A w \in Uploads : up'[w] = IF w = u THEN x ELSE up[w]
        BY <2>3 DEF SavesBase
    <2>10. up' \in [Uploads -> Upload]
        BY <2>1, <2>3 DEF SavesBase
    <2>. QED  BY <2>1, <2>2, <2>3, <2>4, <2>5, <2>6, <2>7, <2>8, <2>9, <2>10 DEF SavesBase
<1>4. CASE PruneOld(u)
    <2>. DEFINE x == [up[u] EXCEPT !.pc = "write"]
    <2>1. x \in Upload /\ x.new = up[u].new /\ x.pc = "write"
        BY <1>1 DEF Upload
    <2>2. u \notin Due /\ up[u].pc = "prune"
        BY <1>4 DEF PruneOld, Pruned, Due
    <2>3. up' = [up EXCEPT ![u] = x] /\ archive' \subseteq archive
          /\ UNCHANGED <<current, lastVersion, saveNo, stored, raced>>
        BY <1>1, <1>4 DEF PruneOld, Pruned, StepTo, SavesBase
    <2>4. evicted' \subseteq evicted \cup {v.save.data : v \in archive}
        BY <1>4 DEF PruneOld, Pruned
    <2>5. \A v \in archive : v.save.data \in 1 .. MaxSaves
        <3>1. \A v \in archive : v \in Version /\ v.save.data # 0
            BY DEF SavesBase
        <3>2. \A v \in archive : v.save \in Save
            BY <3>1 DEF Version
        <3>3. \A v \in archive : v.save.data \in 0 .. MaxSaves
            BY <3>2 DEF Save
        <3>. QED  BY <3>1, <3>3, SavesConstants
    <2>. HIDE DEF x
    <2>6. stored' \cup evicted' \cup raced' \subseteq 1 .. MaxSaves
        BY <2>3, <2>4, <2>5 DEF SavesBase
    <2>7. IsFiniteSet(archive')
        BY <2>3, FS_Subset DEF SavesBase
    <2>8. IsFiniteSet(Due') /\ Cardinality(Due') = Cardinality(Due)
        BY <2>1, <2>2, <2>3, DueMoves
    <2>9. \A w \in Uploads : up'[w] = IF w = u THEN x ELSE up[w]
        BY <2>3 DEF SavesBase
    <2>10. up' \in [Uploads -> Upload]
        BY <2>1, <2>3 DEF SavesBase
    <2>. QED  BY <2>1, <2>2, <2>3, <2>6, <2>7, <2>8, <2>9, <2>10 DEF SavesBase
<1>5. CASE WriteSave(u)
    <2>1. up' = [up EXCEPT ![u] = NoUpload] /\ current' = up[u].new
          /\ UNCHANGED <<archive, lastVersion, saveNo, evicted>>
        BY <1>5 DEF WriteSave
    <2>2. u \notin Due /\ up[u].pc = "write"
        BY <1>5 DEF WriteSave, Due
    <2>3. IsFiniteSet(Due') /\ Cardinality(Due') = Cardinality(Due)
        BY <1>2, <2>1, <2>2, DueMoves
    <2>4. up[u].new.data \in 1 .. MaxSaves /\ current.data \in 0 .. MaxSaves
        <3>1. up[u].new.data \in 0 .. MaxSaves /\ current.data \in 0 .. MaxSaves
            BY <1>1 DEF Save, SavesBase
        <3>2. up[u].new.data # 0
            BY <2>2 DEF SavesBase
        <3>. QED  BY <3>1, <3>2, SavesConstants
    <2>5. stored' \cup evicted' \cup raced' \subseteq 1 .. MaxSaves
        BY <1>5, <2>1, <2>4, SavesConstants DEF SavesBase, WriteSave
    <2>6. \A w \in Uploads : up'[w] = IF w = u THEN NoUpload ELSE up[w]
        BY <2>1 DEF SavesBase
    <2>7. up' \in [Uploads -> Upload]
        BY <1>2, <2>1 DEF SavesBase
    <2>. QED  BY <1>1, <1>2, <2>1, <2>3, <2>5, <2>6, <2>7 DEF SavesBase
<1>. QED  BY <1>3, <1>4, <1>5

\* What holds of the saves in every state.
THEOREM SavesInvariance == SavesSpec => []SavesBase
<1>1. SavesInit => SavesBase
    <2>. SUFFICES ASSUME SavesInit PROVE SavesBase
        OBVIOUS
    <2>1. NoSave \in Save /\ NoUpload \in Upload /\ NoUpload.pc = "idle"
        BY SavesConstants DEF NoUpload, NoSave, Upload, Save
    <2>2. Due = {}
        BY DEF SavesInit, Due, NoUpload
    <2>. QED
        BY <2>1, <2>2, SavesConstants, FS_EmptySet DEF SavesInit, SavesBase
<1>2. SavesBase /\ [SavesNext]_saveVars => SavesBase'
    <2>1. SavesBase /\ UNCHANGED saveVars => SavesBase'
        BY DEF saveVars, SavesBase, Due
    <2>. QED
        BY <2>1, SavesStarts, SavesReads, SavesWrites DEF SavesNext
<1>. QED  BY <1>1, <1>2, PTL DEF SavesSpec

\* The types of the saves are those of the model; versions stay below the bound on
\* uploads because each upload archives at most one.
THEOREM SavesTypes == SavesSpec => []SavesTypeOK
<1>1. SavesBase => SavesTypeOK
    <2>. SUFFICES ASSUME SavesBase PROVE SavesTypeOK
        OBVIOUS
    <2>1. Cardinality(Due) \in Nat
        BY FS_CardinalityType DEF SavesBase
    <2>2. lastVersion \in 0 .. MaxSaves
        BY <2>1, SavesConstants DEF SavesBase
    <2>3. archive \subseteq [id : 1 .. lastVersion, save : Save]
        BY DEF SavesBase, Version
    <2>. QED  BY <2>2, <2>3 DEF SavesBase, SavesTypeOK, Upload
<1>. QED  BY <1>1, SavesInvariance, PTL


\* Nothing that matters to SavesKept is lost by a step that leaves current, what is
\* stored and the histories alone, and prunes no version.
LEMMA SavesUndisturbed ==
    ASSUME SavesKept, PriorArchived, NEW u \in Uploads, NEW x,
           up \in [Uploads -> Upload], up' = [up EXCEPT ![u] = x],
           archive \subseteq archive', evicted \subseteq evicted',
           UNCHANGED <<current, stored, raced>>,
           \A d : x.pc \in {"prune", "write"} /\ x.prior.data = d /\ d # 0 => Archived(d)'
    PROVE  SavesKept' /\ PriorArchived'
<1>1. \A d : Archived(d) => Archived(d)'
    BY DEF Archived
<1>2. \A w \in Uploads : up'[w] = IF w = u THEN x ELSE up[w]
    OBVIOUS
<1>3. PriorArchived'
    BY <1>1, <1>2 DEF PriorArchived
<1>4. SavesKept'
    BY DEF SavesKept
<1>. QED  BY <1>3, <1>4

\* A pruned version has Keep newer ones, so it counts as evicted.
LEMMA PruneEvicts ==
    ASSUME SavesBase, NEW u \in Uploads, PruneOld(u)
    PROVE  \A d : Archived(d) => Archived(d)'
<1>. DEFINE newer(v) == Cardinality({w \in archive : w.id > v.id})
<1>1. \A v \in archive : newer(v) \in Nat
    BY FS_Subset, FS_CardinalityType DEF SavesBase
<1>2. archive' = {v \in archive : newer(v) < Keep}
    BY DEF PruneOld, Pruned
<1>3. evicted' = evicted \cup {v.save.data : v \in {x \in archive \ archive' : newer(x) >= Keep}}
    BY DEF PruneOld, Pruned
<1>4. \A v \in archive : newer(v) < Keep \/ newer(v) >= Keep
    BY <1>1, SavesConstants
<1>. HIDE DEF newer
<1>5. \A v \in archive \ archive' : v.save.data \in evicted'
    BY <1>2, <1>3, <1>4
<1>. QED  BY <1>3, <1>5 DEF Archived

\* No bytes that were once the current save are gone, but for those that Keep newer
\* versions pushed out and those an upload wrote over without having read them.
THEOREM SavesAreKept == SavesSpec => []SavesKept
<1>1. SavesInit => SavesKept /\ PriorArchived
    BY DEF SavesInit, SavesKept, PriorArchived, NoUpload
<1>2. SavesBase /\ SavesKept /\ PriorArchived /\ [SavesNext]_saveVars => SavesKept' /\ PriorArchived'
    <2>. SUFFICES ASSUME SavesBase, SavesKept, PriorArchived, [SavesNext]_saveVars
                  PROVE  SavesKept' /\ PriorArchived'
        OBVIOUS
    <2>0. up \in [Uploads -> Upload]
        BY DEF SavesBase
    <2>1. CASE UNCHANGED saveVars
        BY <2>1 DEF saveVars, SavesKept, PriorArchived, Archived
    <2>2. ASSUME NEW u \in Uploads,
                 \/ \E m \in Mtimes : PutSave(u, m, FALSE, 0) \/ \E b \in Mtimes \cup {0} : PutSave(u, m, TRUE, b)
                 \/ \E v \in archive : RestoreVersion(u, v)
          PROVE  SavesKept' /\ PriorArchived'
        <3>1. PICK x : up' = [up EXCEPT ![u] = x] /\ x.pc \in {"guard", "select"}
                       /\ UNCHANGED <<current, archive, stored, evicted, raced>>
            <4>1. ASSUME NEW m \in Mtimes, NEW g \in BOOLEAN, NEW b, PutSave(u, m, g, b)
                  PROVE  /\ up' = [up EXCEPT ![u] = [NoUpload EXCEPT !.pc = IF g THEN "guard" ELSE "select",
                                    !.new = [data |-> saveNo + 1, mtime |-> m], !.guarded = g, !.base = b]]
                         /\ [NoUpload EXCEPT !.pc = IF g THEN "guard" ELSE "select",
                                !.new = [data |-> saveNo + 1, mtime |-> m], !.guarded = g, !.base = b].pc
                              \in {"guard", "select"}
                         /\ UNCHANGED <<current, archive, stored, evicted, raced>>
                BY <4>1 DEF PutSave, NoUpload
            <4>2. ASSUME NEW v \in archive, RestoreVersion(u, v)
                  PROVE  /\ up' = [up EXCEPT ![u] = [NoUpload EXCEPT !.pc = "select", !.new = v.save]]
                         /\ [NoUpload EXCEPT !.pc = "select", !.new = v.save].pc \in {"guard", "select"}
                         /\ UNCHANGED <<current, archive, stored, evicted, raced>>
                BY <4>2 DEF RestoreVersion, NoUpload
            <4>. QED  BY <2>2, <4>1, <4>2
        <3>. QED  BY <2>0, <3>1, SavesUndisturbed
    <2>3. ASSUME NEW u \in Uploads, CheckBase(u) \/ UploadFails(u)
          PROVE  SavesKept' /\ PriorArchived'
        <3>1. PICK x : up' = [up EXCEPT ![u] = x] /\ x.pc \in {"select", "idle"}
            <4>1. [up[u] EXCEPT !.pc = "select"].pc = "select" /\ NoUpload.pc = "idle"
                BY <2>0 DEF Upload, NoUpload
            <4>2. up' = [up EXCEPT ![u] = [up[u] EXCEPT !.pc = "select"]] \/ up' = [up EXCEPT ![u] = NoUpload]
                BY <2>0, <2>3 DEF CheckBase, UploadFails, StepTo
            <4>. QED  BY <4>1, <4>2
        <3>2. UNCHANGED <<current, archive, stored, evicted, raced>>
            BY <2>3 DEF CheckBase, UploadFails
        <3>. QED  BY <2>0, <3>1, <3>2, SavesUndisturbed
    <2>4. ASSUME NEW u \in Uploads, SelectPrior(u)
          PROVE  SavesKept' /\ PriorArchived'
        <3>. DEFINE x == [up[u] EXCEPT !.prior = current, !.pc = IF current.data # 0 THEN "archive" ELSE "write"]
        <3>1. up' = [up EXCEPT ![u] = x] /\ UNCHANGED <<current, archive, stored, evicted, raced>>
            BY <2>0, <2>4 DEF SelectPrior
        <3>2. x.pc = "archive" \/ x.prior.data = 0
            BY <2>0 DEF Upload
        <3>. HIDE DEF x
        <3>. QED  BY <2>0, <3>1, <3>2, SavesUndisturbed
    <2>5. ASSUME NEW u \in Uploads, ArchivePrior(u)
          PROVE  SavesKept' /\ PriorArchived'
        <3>. DEFINE x == [up[u] EXCEPT !.pc = "prune"]
                    v == [id |-> lastVersion + 1, save |-> up[u].prior]
        <3>1. up' = [up EXCEPT ![u] = x] /\ archive' = archive \cup {v}
              /\ UNCHANGED <<current, stored, evicted, raced>>
            BY <2>0, <2>5 DEF ArchivePrior, StepTo
        <3>2. v.save.data = x.prior.data
            BY <2>0 DEF Upload
        <3>. HIDE DEF x, v
        <3>3. \A d : x.prior.data = d => Archived(d)'
            BY <3>1, <3>2 DEF Archived
        <3>. QED  BY <2>0, <3>1, <3>3, SavesUndisturbed
    <2>6. ASSUME NEW u \in Uploads, PruneOld(u)
          PROVE  SavesKept' /\ PriorArchived'
        <3>1. \A d : Archived(d) => Archived(d)'
            BY <2>6, PruneEvicts
        <3>2. /\ \A w \in Uploads : up'[w].prior = up[w].prior
              /\ \A w \in Uploads : up'[w].pc = IF w = u THEN "write" ELSE up[w].pc
              /\ up[u].pc = "prune" /\ UNCHANGED <<current, stored, raced>>
            BY <2>0, <2>6 DEF PruneOld, Pruned, StepTo, Upload
        <3>3. PriorArchived'
            BY <3>1, <3>2 DEF PriorArchived
        <3>4. SavesKept'
            BY <3>1, <3>2 DEF SavesKept, Archived
        <3>. QED  BY <3>3, <3>4
    <2>7. ASSUME NEW u \in Uploads, WriteSave(u)
          PROVE  SavesKept' /\ PriorArchived'
        <3>1. /\ up[u].pc = "write" /\ current' = up[u].new
              /\ stored' = stored \cup {up[u].new.data}
              /\ raced \subseteq raced'
              /\ current.data \notin {0, up[u].prior.data} => current.data \in raced'
              /\ up' = [up EXCEPT ![u] = NoUpload]
              /\ UNCHANGED <<archive, evicted>>
            BY <2>7 DEF WriteSave
        <3>2. \A w \in Uploads : up'[w] = IF w = u THEN NoUpload ELSE up[w]
            BY <2>0, <3>1
        <3>3. \A d : Archived(d) <=> Archived(d)'
            BY <3>1 DEF Archived
        <3>4. PriorArchived'
            BY <3>2, <3>3 DEF PriorArchived, NoUpload
        <3>5. ASSUME NEW d \in stored'
              PROVE  d \in {current'.data} \cup raced' \/ Archived(d)'
            <4>1. CASE d = up[u].new.data
                BY <3>1, <4>1
            <4>2. CASE d \in stored
                <5>1. d # 0
                    BY <4>2, SavesConstants DEF SavesBase
                <5>2. d = current.data \/ d \in raced \/ Archived(d)
                    BY <4>2 DEF SavesKept, Archived
                <5>3. d = current.data => d \in raced' \/ d = up[u].prior.data
                    BY <3>1, <5>1
                <5>4. d = up[u].prior.data => Archived(d)
                    BY <3>1, <5>1 DEF PriorArchived
                <5>. QED  BY <3>1, <3>3, <5>2, <5>3, <5>4
            <4>. QED  BY <3>1, <3>5, <4>1, <4>2
        <3>6. SavesKept'
            BY <3>5 DEF SavesKept, Archived
        <3>. QED  BY <3>4, <3>6
    <2>. QED  BY <2>1, <2>2, <2>3, <2>4, <2>5, <2>6, <2>7 DEF SavesNext
<1>. QED  BY <1>1, <1>2, SavesInvariance, PTL DEF SavesSpec

-----------------------------------------------------------------------------
(* Accounts, tokens and sessions *)

JobType ==
    [op : {"idle", "delete", "panel", "put", "login"} \cup Kinds,
     pc : {"idle", "look", "count", "tokens", "sessions", "account", "role", "enable",
           "verify", "token", "mint", "open"},
     who : Members \cup {Nil}, admin : Setting, on : Setting, row : 0 .. MaxTokens,
     counted : BOOLEAN]
TokenRow == [user : Members \cup {Nil}, val : 0 .. MaxTokens, on : BOOLEAN]
Account == [st : {"on", "off", "gone"}, admin : BOOLEAN]

\* What the place of a handler says of its request.
JobPlace(x) ==
    /\ x.pc # "idle" => x.who \in Members
    /\ x.pc = "count" => x.op \in {"delete", "panel"}
    /\ x.pc \in {"tokens", "sessions", "account"} => x.op = "delete"
    /\ x.pc \in {"role", "enable"} => x.op \in {"panel", "put"}
    /\ x.pc = "look" => x.op \in {"delete", "panel", "put"}
    /\ x.pc = "verify" => x.op \in {"login"} \cup Kinds
    /\ x.pc = "open" => x.op \in Kinds

AccountsBase ==
    /\ acct \in [Members -> Account]
    /\ toks \in [1 .. MaxTokens -> TokenRow]
    /\ \A k \in 1 .. MaxTokens : toks[k].on => toks[k].user # Nil
    /\ sess \subseteq [kind : Kinds, user : Members, admin : BOOLEAN]
    /\ job \in [Jobs -> JobType]
    /\ \A j \in Jobs : JobPlace(job[j])
    /\ values \in 0 .. MaxTokens /\ jobs \in 0 .. MaxJobs
    /\ since \in [Members -> SUBSET (1 .. MaxTokens)]
    /\ unended \subseteq Members /\ loose \in BOOLEAN

\* A handler's own record changes, to one of the type in a place that fits.
LEMMA JobMoves ==
    ASSUME AccountsBase, NEW j \in Jobs, NEW x \in JobType, JobPlace(x),
           job' = [job EXCEPT ![j] = x]
    PROVE  job' \in [Jobs -> JobType] /\ \A q \in Jobs : JobPlace(job'[q])
<1>1. \A q \in Jobs : job'[q] = IF q = j THEN x ELSE job[q]
    BY DEF AccountsBase
<1>2. \A q \in Jobs : JobPlace(job'[q])
    BY <1>1 DEF AccountsBase
<1>. QED  BY <1>2 DEF AccountsBase

\* A handler that ends.
LEMMA JobEnds ==
    ASSUME AccountsBase, NEW j \in Jobs, Done(j)
    PROVE  job' \in [Jobs -> JobType] /\ \A q \in Jobs : JobPlace(job'[q])
<1>1. NoJob \in JobType /\ JobPlace(NoJob)
    BY AccountsConstants DEF NoJob, JobType, Setting, Kinds, JobPlace
<1>. QED  BY <1>1, JobMoves DEF Done

\* A handler that goes on to its next statement.
LEMMA JobGoes ==
    ASSUME AccountsBase, NEW j \in Jobs, NEW pc, NextStep(j, pc), job[j].pc # "idle",
           pc \in {"look", "count", "tokens", "sessions", "account", "role", "enable",
                   "verify", "token", "mint", "open"},
           JobPlace([job[j] EXCEPT !.pc = pc])
    PROVE  job' \in [Jobs -> JobType] /\ \A q \in Jobs : JobPlace(job'[q])
<1>1. job[j] \in JobType
    BY DEF AccountsBase
<1>2. [job[j] EXCEPT !.pc = pc] \in JobType
    BY <1>1 DEF JobType
<1>3. job' = [job EXCEPT ![j] = [job[j] EXCEPT !.pc = pc]]
    BY DEF NextStep, AccountsBase
<1>. QED  BY <1>2, <1>3, JobMoves

\* A request begins as one of the right shape.
LEMMA AccountsRequests ==
    ASSUME AccountsBase, NEW j \in Jobs, NEW m \in Members,
           \/ StartDelete(j, m)
           \/ \E a, o \in {"yes", "no"} : StartPanelUpdate(j, m, a, o)
           \/ StartPutUpdate(j, m, "no", "keep") \/ StartPutUpdate(j, m, "keep", "no")
           \/ \E op \in {"login"} \cup Kinds : StartLogin(j, m, op)
    PROVE  AccountsBase'
<1>1. ASSUME NEW r \in JobType, JobPlace(r), Request(j, r) PROVE AccountsBase'
    <2>1. job' = [job EXCEPT ![j] = r]
        BY <1>1 DEF Request
    <2>2. job' \in [Jobs -> JobType] /\ \A q \in Jobs : JobPlace(job'[q])
        BY <1>1, <2>1, JobMoves
    <2>3. jobs' \in 0 .. MaxJobs
        BY <1>1, AccountsConstants DEF Request, AccountsBase
    <2>. QED  BY <1>1, <2>2, <2>3 DEF Request, AccountsBase
<1>2. NoJob \in JobType
    BY AccountsConstants DEF NoJob, JobType, Setting, Kinds
<1>3. CASE StartDelete(j, m)
    <2>. DEFINE r == [NoJob EXCEPT !.op = "delete", !.pc = "look", !.who = m]
    <2>1. r \in JobType /\ JobPlace(r)
        BY <1>2 DEF NoJob, JobType, JobPlace
    <2>. QED  BY <1>1, <1>3, <2>1 DEF StartDelete
<1>4. ASSUME NEW a \in {"yes", "no"}, NEW o \in {"yes", "no"}, StartPanelUpdate(j, m, a, o)
      PROVE  AccountsBase'
    <2>. DEFINE r == [NoJob EXCEPT !.op = "panel", !.pc = "look", !.who = m, !.admin = a, !.on = o]
    <2>1. r \in JobType /\ JobPlace(r)
        BY <1>2 DEF NoJob, JobType, JobPlace, Setting, Kinds
    <2>. QED  BY <1>1, <1>4, <2>1 DEF StartPanelUpdate
<1>5. ASSUME NEW a \in Setting, NEW o \in Setting, StartPutUpdate(j, m, a, o)
      PROVE  AccountsBase'
    <2>. DEFINE r == [NoJob EXCEPT !.op = "put", !.pc = "look", !.who = m, !.admin = a, !.on = o]
    <2>1. r \in JobType /\ JobPlace(r)
        BY <1>2 DEF NoJob, JobType, JobPlace, Setting, Kinds
    <2>. QED  BY <1>1, <1>5, <2>1 DEF StartPutUpdate
<1>6. ASSUME NEW op \in {"login"} \cup Kinds, StartLogin(j, m, op)
      PROVE  AccountsBase'
    <2>. DEFINE r == [NoJob EXCEPT !.op = op, !.pc = "verify", !.who = m]
    <2>1. r \in JobType /\ JobPlace(r)
        BY <1>2 DEF NoJob, JobType, JobPlace, Setting, Kinds
    <2>. QED  BY <1>1, <1>6, <2>1 DEF StartLogin
<1>. QED  BY <1>3, <1>4, <1>5, <1>6 DEF Setting

\* Looking, counting, checking and failing write no table.
LEMMA AccountsReads ==
    ASSUME AccountsBase, NEW j \in Jobs,
           LookTarget(j) \/ CountAdmins(j) \/ Verify(j) \/ FindToken(j) \/ JobFails(j)
    PROVE  AccountsBase' /\ UNCHANGED <<acct, toks, sess, values, jobs, since, unended, loose>>
<1>. DEFINE Fine == job' \in [Jobs -> JobType] /\ \A q \in Jobs : JobPlace(job'[q])
<1>1. job[j] \in JobType /\ JobPlace(job[j])
    BY DEF AccountsBase
<1>2. UNCHANGED <<acct, toks, sess, values, jobs, since, unended, loose>>
    BY DEF LookTarget, CountAdmins, Counted, Verify, FindToken, JobFails
<1>3. ASSUME Done(j) PROVE Fine
    BY <1>3, JobEnds
<1>4. ASSUME NEW pc \in {"count", "tokens", "role", "mint"}, NextStep(j, pc), job[j].pc # "idle",
             pc = "count" => job[j].op \in {"delete", "panel"},
             pc = "tokens" => job[j].op = "delete",
             pc = "role" => job[j].op \in {"panel", "put"}
      PROVE  Fine
    <2>1. JobPlace([job[j] EXCEPT !.pc = pc])
        BY <1>1, <1>4 DEF JobPlace, JobType
    <2>. QED  BY <1>4, <2>1, JobGoes
<1>. HIDE DEF Fine
<1>5. CASE LookTarget(j)
    <2>1. \/ Done(j)
          \/ \E pc \in {"count", "tokens", "role"} :
                /\ NextStep(j, pc)
                /\ pc = "count" => job[j].op \in {"delete", "panel"}
                /\ pc = "tokens" => job[j].op = "delete"
                /\ pc = "role" => job[j].op \in {"panel", "put"}
        BY <1>5 DEF LookTarget
    <2>2. job[j].pc # "idle"
        BY <1>5 DEF LookTarget
    <2>3. Fine
        BY <1>3, <1>4, <2>1, <2>2
    <2>. QED  BY <1>2, <2>3 DEF Fine, AccountsBase
<1>6. CASE CountAdmins(j)
    <2>1. job[j].pc = "count" /\ job[j].op \in {"delete", "panel"}
        BY <1>1, <1>6 DEF CountAdmins, Counted, JobPlace
    <2>. DEFINE pc == IF job[j].op = "delete" THEN "tokens" ELSE "role"
                x == [job[j] EXCEPT !.pc = pc, !.counted = TRUE]
    <2>2. x \in JobType /\ JobPlace(x)
        BY <1>1, <2>1 DEF JobType, JobPlace
    <2>3. Done(j) \/ job' = [job EXCEPT ![j] = x]
        BY <1>6 DEF CountAdmins, Counted, AccountsBase
    <2>. HIDE DEF x
    <2>4. Fine
        BY <1>3, <2>2, <2>3, JobMoves DEF Fine
    <2>. QED  BY <1>2, <2>4 DEF Fine, AccountsBase
<1>7. CASE Verify(j)
    <2>1. job[j].pc = "verify" /\ job[j].op \in {"login"} \cup Kinds /\ job[j].who \in Members
        BY <1>1, <1>7 DEF Verify, JobPlace
    <2>2. ASSUME NEW pc, NEW a \in {"yes", "no"}, pc = IF job[j].op = "login" THEN "token" ELSE "open",
                 job' = [job EXCEPT ![j] = [job[j] EXCEPT !.pc = pc, !.admin = a]]
          PROVE  Fine
        <3>. DEFINE x == [job[j] EXCEPT !.pc = pc, !.admin = a]
        <3>1. x \in JobType /\ JobPlace(x)
            BY <1>1, <2>1, <2>2 DEF JobType, JobPlace, Setting, Kinds
        <3>. QED  BY <2>2, <3>1, JobMoves DEF Fine
    <2>3. Done(j) \/ job' = [job EXCEPT ![j] = [job[j] EXCEPT
                                !.pc = IF job[j].op = "login" THEN "token" ELSE "open",
                                !.admin = IF acct[job[j].who].admin THEN "yes" ELSE "no"]]
        BY <1>7 DEF Verify, AccountsBase
    <2>4. Fine
        BY <1>3, <2>2, <2>3
    <2>. QED  BY <1>2, <2>4 DEF Fine, AccountsBase
<1>8. CASE FindToken(j)
    <2>1. job[j].pc = "token"
        BY <1>8 DEF FindToken
    <2>2. ASSUME NEW k \in DOMAIN toks, job' = [job EXCEPT ![j].pc = "mint", ![j].row = k]
          PROVE  Fine
        <3>. DEFINE x == [job[j] EXCEPT !.pc = "mint", !.row = k]
        <3>0. k \in 0 .. MaxTokens
            BY AccountsConstants DEF AccountsBase
        <3>1. x \in JobType /\ JobPlace(x)
            BY <1>1, <2>1, <3>0 DEF JobType, JobPlace
        <3>2. job' = [job EXCEPT ![j] = x]
            BY <2>2 DEF AccountsBase
        <3>. QED  BY <3>1, <3>2, JobMoves DEF Fine
    <2>3. \/ Done(j) \/ NextStep(j, "mint")
          \/ \E k \in DOMAIN toks : job' = [job EXCEPT ![j].pc = "mint", ![j].row = k]
        BY <1>8 DEF FindToken, TokensOf
    <2>4. Fine
        BY <1>3, <1>4, <2>1, <2>2, <2>3
    <2>. QED  BY <1>2, <2>4 DEF Fine, AccountsBase
<1>9. CASE JobFails(j)
    BY <1>2, <1>3, <1>9 DEF Fine, AccountsBase, JobFails
<1>. QED  BY <1>2, <1>5, <1>6, <1>7, <1>8, <1>9

\* The write of an account leaves every handler in its place.
LEMMA JobStrips ==
    ASSUME AccountsBase, NEW j \in Jobs, NEW a \in Account, NEW x \in JobType, JobPlace(x),
           job[j].who \in Members, Strip(j, a, x)
    PROVE  /\ acct' \in [Members -> Account] /\ loose' \in BOOLEAN
           /\ job' \in [Jobs -> JobType] /\ \A q \in Jobs : JobPlace(job'[q])
<1>. DEFINE goes == [job EXCEPT ![j] = x]
<1>1. acct' \in [Members -> Account] /\ loose' \in BOOLEAN
    BY DEF Strip, AccountsBase, JobType
<1>2. goes \in [Jobs -> JobType] /\ \A q \in Jobs : JobPlace(goes[q])
    BY DEF AccountsBase
<1>3. job' = goes \/ job' = [q \in Jobs |-> [goes[q] EXCEPT !.counted = FALSE]]
    BY DEF Strip
<1>. HIDE DEF goes
<1>4. \A q \in Jobs : [goes[q] EXCEPT !.counted = FALSE] \in JobType /\ JobPlace([goes[q] EXCEPT !.counted = FALSE])
    BY <1>2 DEF JobType, JobPlace
<1>. QED  BY <1>1, <1>2, <1>3, <1>4

\* Writing an account: its deletion, its role, its access.
LEMMA AccountsStrips ==
    ASSUME AccountsBase, NEW j \in Jobs, DeleteAccount(j) \/ WriteRole(j) \/ WriteEnabled(j)
    PROVE  AccountsBase'
<1>1. job[j] \in JobType /\ JobPlace(job[j])
    BY DEF AccountsBase
<1>2. job[j].pc \in {"account", "role", "enable"} /\ job[j].who \in Members
    BY <1>1 DEF DeleteAccount, WriteRole, WriteEnabled, JobPlace
<1>3. acct[job[j].who] \in Account
    BY <1>2 DEF AccountsBase
<1>4. NoJob \in JobType /\ JobPlace(NoJob)
    BY AccountsConstants DEF NoJob, JobType, Setting, Kinds, JobPlace
<1>5. UNCHANGED <<toks, sess, values, jobs, since, unended>>
    BY DEF DeleteAccount, WriteRole, WriteEnabled
<1>6. ASSUME /\ acct' \in [Members -> Account] /\ loose' \in BOOLEAN
             /\ job' \in [Jobs -> JobType] /\ \A q \in Jobs : JobPlace(job'[q])
      PROVE  AccountsBase'
    BY <1>5, <1>6 DEF AccountsBase
<1>7. CASE DeleteAccount(j)
    <2>1. Gone \in Account /\ Strip(j, Gone, NoJob)
        BY <1>7 DEF DeleteAccount, Gone, Account
    <2>. QED  BY <1>2, <1>4, <1>6, <2>1, JobStrips
<1>8. CASE WriteRole(j)
    <2>. DEFINE a == [acct[job[j].who] EXCEPT !.admin = job[j].admin = "yes"]
                x == [job[j] EXCEPT !.pc = "enable"]
    <2>1. a \in Account
        BY <1>3 DEF Account
    <2>2. job[j].pc = "role" /\ (Strip(j, a, x) \/ (NextStep(j, "enable") /\ UNCHANGED <<acct, loose>>))
        BY <1>8 DEF WriteRole
    <2>3. x \in JobType /\ JobPlace(x)
        BY <1>1, <2>2 DEF JobPlace, JobType
    <2>4. CASE NextStep(j, "enable") /\ UNCHANGED <<acct, loose>>
        BY <1>6, <2>2, <2>3, <2>4, JobGoes DEF AccountsBase
    <2>. HIDE DEF a, x
    <2>. QED  BY <1>2, <1>6, <2>1, <2>2, <2>3, <2>4, JobStrips
<1>9. CASE WriteEnabled(j)
    <2>. DEFINE a == [acct[job[j].who] EXCEPT !.st = IF job[j].on = "yes" THEN "on" ELSE "off"]
    <2>1. a \in Account
        BY <1>3 DEF Account
    <2>2. Strip(j, a, NoJob) \/ (Done(j) /\ UNCHANGED <<acct, loose>>)
        BY <1>9 DEF WriteEnabled
    <2>3. CASE Done(j) /\ UNCHANGED <<acct, loose>>
        BY <1>6, <2>3, JobEnds DEF AccountsBase
    <2>. HIDE DEF a
    <2>. QED  BY <1>2, <1>4, <1>6, <2>1, <2>2, <2>3, JobStrips
<1>. QED  BY <1>7, <1>8, <1>9

\* Writing tokens.
LEMMA AccountsTokens ==
    ASSUME AccountsBase,
           \/ \E j \in Jobs : DeleteTokens(j) \/ MintToken(j)
           \/ \E m \in Members : Logout(m)
           \/ \E k \in DOMAIN toks : RotateToken(k) \/ DeleteToken(k)
    PROVE  AccountsBase'
<1>1. NoToken \in TokenRow /\ NoToken.on = FALSE
    BY AccountsConstants DEF NoToken, TokenRow
<1>2. ASSUME NEW j \in Jobs, DeleteTokens(j) PROVE AccountsBase'
    <2>1. job[j] \in JobType /\ JobPlace(job[j]) /\ job[j].pc = "tokens" /\ NextStep(j, "sessions")
        BY <1>2 DEF AccountsBase, DeleteTokens
    <2>2. JobPlace([job[j] EXCEPT !.pc = "sessions"])
        BY <2>1 DEF JobPlace, JobType
    <2>3. job' \in [Jobs -> JobType] /\ \A q \in Jobs : JobPlace(job'[q])
        BY <2>1, <2>2, JobGoes
    <2>4. toks' \in [1 .. MaxTokens -> TokenRow]
        BY <1>1, <1>2 DEF AccountsBase, DeleteTokens
    <2>5. \A k \in 1 .. MaxTokens : toks'[k].on => toks'[k].user # Nil
        BY <1>1, <1>2 DEF AccountsBase, DeleteTokens
    <2>. QED  BY <1>2, <2>3, <2>4, <2>5 DEF AccountsBase, DeleteTokens
<1>3. ASSUME NEW j \in Jobs, MintToken(j) PROVE AccountsBase'
    <2>. DEFINE row == [user |-> job[j].who, val |-> values + 1, on |-> TRUE]
    <2>1. job' \in [Jobs -> JobType] /\ \A q \in Jobs : JobPlace(job'[q])
        BY <1>3, JobEnds DEF MintToken
    <2>2. job[j].who \in Members
        BY <1>3 DEF MintToken, AccountsBase, JobPlace
    <2>3. values + 1 \in 1 .. MaxTokens
        BY SMTT(20), <1>3, AccountsConstants DEF MintToken, AccountsBase
    <2>4. row \in TokenRow /\ row.user # Nil
        BY <2>2, <2>3, AccountsConstants DEF TokenRow
    <2>. HIDE DEF row
    <2>5. toks' = toks \/ \E k : toks' = [toks EXCEPT ![k] = row]
        BY <1>3 DEF MintToken, row
    <2>6. toks' \in [1 .. MaxTokens -> TokenRow]
        BY <2>4, <2>5 DEF AccountsBase
    <2>7. \A k \in 1 .. MaxTokens : toks'[k].on => toks'[k].user # Nil
        BY <2>4, <2>5 DEF AccountsBase
    <2>8. since' \in [Members -> SUBSET (1 .. MaxTokens)]
        BY <1>3, <2>3 DEF MintToken, AccountsBase
    <2>9. values' \in 0 .. MaxTokens
        BY SMTT(20), <1>3, <2>3 DEF MintToken
    <2>. QED  BY <1>3, <2>1, <2>6, <2>7, <2>8, <2>9 DEF AccountsBase, MintToken
<1>4. ASSUME NEW m \in Members, Logout(m) PROVE AccountsBase'
    <2>1. \/ toks' = [k \in 1 .. MaxTokens |-> IF toks[k].user = m THEN [toks[k] EXCEPT !.on = FALSE] ELSE toks[k]]
          \/ toks' = toks
        BY <1>4 DEF Logout, AccountsBase
    <2>2. \A k \in 1 .. MaxTokens : toks[k] \in TokenRow /\ [toks[k] EXCEPT !.on = FALSE] \in TokenRow
                                      /\ [toks[k] EXCEPT !.on = FALSE].on = FALSE
        BY DEF AccountsBase, TokenRow
    <2>3. toks' \in [1 .. MaxTokens -> TokenRow]
        BY <2>1, <2>2 DEF AccountsBase
    <2>4. \A k \in 1 .. MaxTokens : toks'[k].on => toks'[k].user # Nil
        BY <2>1, <2>2 DEF AccountsBase
    <2>5. since' \in [Members -> SUBSET (1 .. MaxTokens)] /\ unended' \subseteq Members
        BY <1>4 DEF Logout, AccountsBase
    <2>. QED  BY <1>4, <2>3, <2>4, <2>5 DEF AccountsBase, Logout
<1>5. ASSUME NEW k \in DOMAIN toks, RotateToken(k) PROVE AccountsBase'
    <2>1. values + 1 \in 1 .. MaxTokens
        BY <1>5, AccountsConstants DEF RotateToken, AccountsBase
    <2>2. toks[k] \in TokenRow /\ k \in 1 .. MaxTokens
        BY DEF AccountsBase
    <2>3. [toks[k] EXCEPT !.val = values + 1] \in TokenRow /\ [toks[k] EXCEPT !.val = values + 1].user = toks[k].user
        BY <2>1, <2>2 DEF TokenRow
    <2>4. toks' = [toks EXCEPT ![k] = [toks[k] EXCEPT !.val = values + 1]]
        BY <1>5 DEF RotateToken, AccountsBase
    <2>5. toks' \in [1 .. MaxTokens -> TokenRow]
        BY <2>3, <2>4 DEF AccountsBase
    <2>6. \A q \in 1 .. MaxTokens : toks'[q].on => toks'[q].user # Nil
        BY <1>5, <2>3, <2>4 DEF RotateToken, AccountsBase
    <2>7. since' \in [Members -> SUBSET (1 .. MaxTokens)]
        BY <1>5, <2>1 DEF RotateToken, AccountsBase
    <2>. QED  BY <1>5, <2>1, <2>5, <2>6, <2>7 DEF AccountsBase, RotateToken
<1>6. ASSUME NEW k \in DOMAIN toks, DeleteToken(k) PROVE AccountsBase'
    <2>1. toks' = [toks EXCEPT ![k] = NoToken]
        BY <1>6 DEF DeleteToken
    <2>2. toks' \in [1 .. MaxTokens -> TokenRow]
        BY <1>1, <2>1 DEF AccountsBase
    <2>3. \A q \in 1 .. MaxTokens : toks'[q].on => toks'[q].user # Nil
        BY <1>1, <2>1 DEF AccountsBase
    <2>. QED  BY <1>6, <2>2, <2>3 DEF AccountsBase, DeleteToken
<1>. QED  BY <1>2, <1>3, <1>4, <1>5, <1>6

\* Writing sessions, and creating an account.
LEMMA AccountsSessions ==
    ASSUME AccountsBase,
           \/ \E j \in Jobs : DeleteSessions(j) \/ OpenSession(j)
           \/ \E s \in sess : CloseSession(s)
           \/ \E m \in Members, admin \in BOOLEAN : CreateUser(m, admin)
    PROVE  AccountsBase'
<1>1. ASSUME NEW j \in Jobs, DeleteSessions(j) PROVE AccountsBase'
    <2>1. job[j] \in JobType /\ JobPlace(job[j]) /\ job[j].pc = "sessions" /\ NextStep(j, "account")
        BY <1>1 DEF AccountsBase, DeleteSessions
    <2>2. JobPlace([job[j] EXCEPT !.pc = "account"])
        BY <2>1 DEF JobPlace, JobType
    <2>3. job' \in [Jobs -> JobType] /\ \A q \in Jobs : JobPlace(job'[q])
        BY <2>1, <2>2, JobGoes
    <2>. QED  BY <1>1, <2>3 DEF AccountsBase, DeleteSessions
<1>2. ASSUME NEW j \in Jobs, OpenSession(j) PROVE AccountsBase'
    <2>1. job' \in [Jobs -> JobType] /\ \A q \in Jobs : JobPlace(job'[q])
        BY <1>2, JobEnds DEF OpenSession
    <2>2. job[j].op \in Kinds /\ job[j].who \in Members
        BY <1>2 DEF OpenSession, AccountsBase, JobPlace
    <2>3. sess' \subseteq [kind : Kinds, user : Members, admin : BOOLEAN]
        <3>. DEFINE a == job[j].admin = "yes"
        <3>1. a \in BOOLEAN
            OBVIOUS
        <3>2. sess' = sess \cup {[kind |-> job[j].op, user |-> job[j].who, admin |-> a]}
            BY <1>2 DEF OpenSession
        <3>. HIDE DEF a
        <3>3. [kind |-> job[j].op, user |-> job[j].who, admin |-> a] \in [kind : Kinds, user : Members, admin : BOOLEAN]
            BY <2>2, <3>1
        <3>. QED  BY <3>2, <3>3 DEF AccountsBase
    <2>. QED  BY <1>2, <2>1, <2>3 DEF AccountsBase, OpenSession
<1>3. ASSUME NEW s \in sess, CloseSession(s) PROVE AccountsBase'
    BY <1>3 DEF CloseSession, AccountsBase
<1>4. ASSUME NEW m \in Members, NEW admin \in BOOLEAN, CreateUser(m, admin) PROVE AccountsBase'
    <2>1. acct' \in [Members -> Account]
        BY <1>4 DEF CreateUser, AccountsBase, Account
    <2>. QED  BY <1>4, <2>1 DEF CreateUser, AccountsBase
<1>. QED  BY <1>1, <1>2, <1>3, <1>4

\* What holds of the accounts in every state.
THEOREM AccountsInvariance == AccountsSpec => []AccountsBase
<1>1. AccountsInit => AccountsBase
    <2>. SUFFICES ASSUME AccountsInit PROVE AccountsBase
        OBVIOUS
    <2>1. NoToken \in TokenRow /\ NoToken.on = FALSE /\ NoJob \in JobType /\ JobPlace(NoJob)
        BY AccountsConstants DEF NoToken, TokenRow, NoJob, JobType, Setting, Kinds, JobPlace
    <2>2. Gone \in Account /\ [st |-> "on", admin |-> TRUE] \in Account
        BY DEF Gone, Account
    <2>3. acct \in [Members -> Account]
        BY <2>2 DEF AccountsInit
    <2>4. toks \in [1 .. MaxTokens -> TokenRow] /\ \A k \in 1 .. MaxTokens : toks[k].on => toks[k].user # Nil
        BY <2>1 DEF AccountsInit
    <2>5. job \in [Jobs -> JobType] /\ \A j \in Jobs : JobPlace(job[j])
        BY <2>1 DEF AccountsInit
    <2>6. values \in 0 .. MaxTokens /\ jobs \in 0 .. MaxJobs
        BY AccountsConstants DEF AccountsInit
    <2>7. since \in [Members -> SUBSET (1 .. MaxTokens)] /\ sess = {} /\ unended = {} /\ loose = FALSE
        BY DEF AccountsInit
    <2>. QED  BY <2>3, <2>4, <2>5, <2>6, <2>7 DEF AccountsBase
<1>2. AccountsBase /\ [AccountsNext]_accountVars => AccountsBase'
    <2>. SUFFICES ASSUME AccountsBase, [AccountsNext]_accountVars PROVE AccountsBase'
        OBVIOUS
    <2>1. CASE UNCHANGED accountVars
        BY <2>1 DEF accountVars, AccountsBase
    <2>2. ASSUME NEW j \in Jobs,
                 LookTarget(j) \/ CountAdmins(j) \/ Verify(j) \/ FindToken(j) \/ JobFails(j)
          PROVE  AccountsBase'
        BY <2>2, AccountsReads
    <2>3. ASSUME NEW j \in Jobs,
                 \/ DeleteTokens(j) \/ MintToken(j) \/ DeleteSessions(j) \/ OpenSession(j)
                 \/ DeleteAccount(j) \/ WriteRole(j) \/ WriteEnabled(j)
          PROVE  AccountsBase'
        BY <2>3, AccountsStrips, AccountsTokens, AccountsSessions
    <2>. QED
        BY <2>1, <2>2, <2>3, AccountsRequests, AccountsTokens, AccountsSessions DEF AccountsNext
<1>. QED  BY <1>1, <1>2, PTL DEF AccountsSpec

\* The types of the accounts are those of the model.
THEOREM AccountsTypes == AccountsSpec => []AccountsTypeOK
<1>1. AccountsBase => AccountsTypeOK
    <2>. SUFFICES ASSUME AccountsBase PROVE AccountsTypeOK
        OBVIOUS
    <2>1. \A j \in Jobs : job[j] \in JobType
        BY DEF AccountsBase
    <2>2. /\ acct \in [Members -> [st : {"on", "off", "gone"}, admin : BOOLEAN]]
          /\ toks \in [1 .. MaxTokens -> [user : Members \cup {Nil}, val : 0 .. MaxTokens, on : BOOLEAN]]
        BY DEF AccountsBase, Account, TokenRow
    <2>3. /\ sess \subseteq [kind : Kinds, user : Members, admin : BOOLEAN]
          /\ values \in 0 .. MaxTokens /\ jobs \in 0 .. MaxJobs
          /\ since \in [Members -> SUBSET (1 .. MaxTokens)]
          /\ unended \subseteq Members /\ loose \in BOOLEAN
        BY DEF AccountsBase
    <2>. QED  BY <2>1, <2>2, <2>3 DEF AccountsTypeOK, JobType
<1>. QED  BY <1>1, AccountsInvariance, PTL

\* Which handlers touch the tokens.
LEMMA TokensTouched ==
    ASSUME [AccountsNext]_accountVars
    PROVE  \/ UNCHANGED <<toks, since, unended>>
           \/ \E j \in Jobs : DeleteTokens(j) \/ MintToken(j)
           \/ \E m \in Members : Logout(m)
           \/ \E k \in DOMAIN toks : RotateToken(k) \/ DeleteToken(k)
<1>1. CASE UNCHANGED accountVars
    BY <1>1 DEF accountVars
<1>2. ASSUME NEW j \in Jobs, NEW m \in Members,
             \/ StartDelete(j, m)
             \/ \E a, o \in {"yes", "no"} : StartPanelUpdate(j, m, a, o)
             \/ StartPutUpdate(j, m, "no", "keep") \/ StartPutUpdate(j, m, "keep", "no")
             \/ \E op \in {"login"} \cup Kinds : StartLogin(j, m, op)
      PROVE  UNCHANGED <<toks, since, unended>>
    BY <1>2 DEF StartDelete, StartPanelUpdate, StartPutUpdate, StartLogin, Request
<1>3. ASSUME NEW j \in Jobs,
             \/ LookTarget(j) \/ CountAdmins(j) \/ DeleteSessions(j) \/ DeleteAccount(j)
             \/ WriteRole(j) \/ WriteEnabled(j)
      PROVE  UNCHANGED <<toks, since, unended>>
    BY <1>3 DEF LookTarget, CountAdmins, Counted, DeleteSessions, DeleteAccount, WriteRole, WriteEnabled
<1>4. ASSUME NEW j \in Jobs, Verify(j) \/ FindToken(j) \/ OpenSession(j) \/ JobFails(j)
      PROVE  UNCHANGED <<toks, since, unended>>
    BY <1>4 DEF Verify, FindToken, OpenSession, JobFails
<1>5. ASSUME NEW m \in Members, NEW admin \in BOOLEAN, CreateUser(m, admin)
      PROVE  UNCHANGED <<toks, since, unended>>
    BY <1>5 DEF CreateUser
<1>6. ASSUME NEW s \in sess, CloseSession(s) PROVE UNCHANGED <<toks, since, unended>>
    BY <1>6 DEF CloseSession
<1>. QED  BY <1>1, <1>2, <1>3, <1>4, <1>5, <1>6 DEF AccountsNext

\* After a logout no token of the account works that was not minted or rotated since, on
\* however many rows first logins at once left it with, unless the logout, though
\* acknowledged, failed to write.
THEOREM LogoutsEndAll == AccountsSpec => []LogoutEndsAll
<1>1. AccountsInit => LogoutEndsAll
    BY DEF AccountsInit, LogoutEndsAll, NoToken
<1>2. AccountsBase /\ LogoutEndsAll /\ [AccountsNext]_accountVars => LogoutEndsAll'
    <2>. SUFFICES ASSUME AccountsBase, LogoutEndsAll, [AccountsNext]_accountVars PROVE LogoutEndsAll'
        OBVIOUS
    <2>0. /\ toks \in [1 .. MaxTokens -> TokenRow] /\ since \in [Members -> SUBSET (1 .. MaxTokens)]
          /\ \A k \in 1 .. MaxTokens : toks[k] \in TokenRow /\ (toks[k].on => toks[k].user \in Members)
        BY DEF AccountsBase, TokenRow
    <2>1. CASE UNCHANGED <<toks, since, unended>>
        BY <2>1 DEF LogoutEndsAll
    <2>2. ASSUME NEW j \in Jobs, DeleteTokens(j) PROVE LogoutEndsAll'
        BY <2>0, <2>2 DEF DeleteTokens, LogoutEndsAll, NoToken
    <2>3. ASSUME NEW j \in Jobs, MintToken(j) PROVE LogoutEndsAll'
        <3>. DEFINE m == job[j].who
                    row == [user |-> m, val |-> values + 1, on |-> TRUE]
        <3>1. m \in Members
            BY <2>3 DEF MintToken, AccountsBase, JobPlace
        <3>2. since' = [since EXCEPT ![m] = @ \cup {values + 1}]
            BY <2>3 DEF MintToken
        <3>3. row.user = m /\ row.val \in since'[m]
            BY <2>0, <3>1, <3>2
        <3>4. \A u \in Members : since[u] \subseteq since'[u]
            BY <2>0, <3>1, <3>2
        <3>5. toks' = toks \/ \E k : toks' = [toks EXCEPT ![k] = row]
            BY <2>3 DEF MintToken
        <3>6. unended' = unended
            BY <2>3 DEF MintToken
        <3>. HIDE DEF row, m
        <3>. QED  BY <2>0, <3>3, <3>4, <3>5, <3>6 DEF LogoutEndsAll
    <2>4. ASSUME NEW m \in Members, Logout(m) PROVE LogoutEndsAll'
        <3>2. \A u \in Members \ {m} : since'[u] = since[u] /\ (u \in unended => u \in unended')
            BY <2>0, <2>4 DEF Logout
        <3>3. CASE UNCHANGED toks /\ unended' = unended \cup {m}
            BY <2>0, <3>2, <3>3 DEF LogoutEndsAll
        <3>4. CASE toks' = [k \in DOMAIN toks |-> IF toks[k].user = m THEN [toks[k] EXCEPT !.on = FALSE] ELSE toks[k]]
            <4>1. \A k \in DOMAIN toks' : k \in 1 .. MaxTokens
                    /\ (toks'[k].on => toks[k].user # m /\ toks'[k] = toks[k])
                BY <2>0, <3>4 DEF TokenRow
            <4>. QED  BY <2>0, <3>2, <4>1 DEF LogoutEndsAll
        <3>. QED  BY <2>4, <3>3, <3>4 DEF Logout
    <2>5. ASSUME NEW k \in DOMAIN toks, RotateToken(k) PROVE LogoutEndsAll'
        <3>. DEFINE row == [toks[k] EXCEPT !.val = values + 1]
        <3>1. k \in 1 .. MaxTokens /\ toks' = [toks EXCEPT ![k] = row]
            BY <2>0, <2>5 DEF RotateToken
        <3>2. row.user = toks[k].user /\ row.val = values + 1 /\ toks[k].user \in Members
            BY <2>0, <2>5, <3>1 DEF RotateToken, TokenRow
        <3>3. since' = [since EXCEPT ![toks[k].user] = @ \cup {values + 1}]
            BY <2>5 DEF RotateToken
        <3>5. unended' = unended
            BY <2>5 DEF RotateToken
        <3>4. row.val \in since'[row.user] /\ \A u \in Members : since[u] \subseteq since'[u]
            BY <2>0, <3>2, <3>3
        <3>. HIDE DEF row
        <3>. QED  BY <2>0, <3>1, <3>4, <3>5 DEF LogoutEndsAll
    <2>6. ASSUME NEW k \in DOMAIN toks, DeleteToken(k) PROVE LogoutEndsAll'
        BY <2>0, <2>6 DEF DeleteToken, LogoutEndsAll, NoToken
    <2>. QED  BY <2>1, <2>2, <2>3, <2>4, <2>5, <2>6, TokensTouched
<1>. QED  BY <1>1, <1>2, AccountsInvariance, PTL DEF AccountsSpec

\* An enabled admin is left unless the last removal went round the guard, and for a job
\* whose count stands there is one other than its target.
Guarded ==
    /\ enabled_admins = {} => loose
    /\ \A j \in Jobs : job[j].counted => enabled_admins \ {job[j].who} # {}

\* With more than one enabled admin there is one other than any given account.
LEMMA SomeoneElse ==
    ASSUME NEW S, NEW m, Cardinality(S) > 1
    PROVE  S \ {m} # {}
<1>. SUFFICES ASSUME S \ {m} = {} PROVE FALSE
    OBVIOUS
<1>1. S = {} \/ S = {m}
    OBVIOUS
<1>. QED  BY SMTT(20), <1>1, FS_EmptySet, FS_Singleton

\* A step of one handler that leaves the accounts alone keeps the guard, if it counts
\* anew or goes on to stand by the count it has.
LEMMA GuardKept ==
    ASSUME AccountsBase, Guarded, UNCHANGED <<acct, loose>>, NEW j \in Jobs, NEW x,
           job' = [job EXCEPT ![j] = x],
           x.counted => \/ job[j].counted /\ x.who = job[j].who
                        \/ enabled_admins \ {x.who} # {}
    PROVE  Guarded'
<1>1. enabled_admins' = enabled_admins
    BY DEF enabled_admins, Admins
<1>2. \A q \in Jobs : job'[q] = IF q = j THEN x ELSE job[q]
    BY DEF AccountsBase
<1>. QED  BY <1>1, <1>2 DEF Guarded

\* A handler that ends, or goes on to its next statement.
LEMMA GuardSteps ==
    ASSUME AccountsBase, Guarded, UNCHANGED <<acct, loose>>, NEW j \in Jobs,
           Done(j) \/ \E pc : NextStep(j, pc)
    PROVE  Guarded'
<1>1. CASE Done(j)
    BY <1>1, GuardKept DEF Done, NoJob
<1>2. ASSUME NEW pc, NextStep(j, pc) PROVE Guarded'
    <2>. DEFINE x == [job[j] EXCEPT !.pc = pc]
    <2>1. job' = [job EXCEPT ![j] = x] /\ x.counted = job[j].counted /\ x.who = job[j].who
        BY <1>2 DEF NextStep, AccountsBase, JobType
    <2>. HIDE DEF x
    <2>. QED  BY <2>1, GuardKept
<1>. QED  BY <1>1, <1>2

\* Looking, counting and checking.
LEMMA GuardAtReads ==
    ASSUME AccountsBase, Guarded, NEW j \in Jobs,
           LookTarget(j) \/ CountAdmins(j) \/ Verify(j) \/ FindToken(j) \/ JobFails(j)
    PROVE  Guarded'
<1>1. job[j] \in JobType /\ job \in [Jobs -> JobType] /\ UNCHANGED <<acct, loose>>
    BY AccountsReads DEF AccountsBase
<1>2. CASE LookTarget(j) \/ JobFails(j)
    BY <1>1, <1>2, GuardSteps DEF LookTarget, JobFails
<1>3. CASE CountAdmins(j)
    <2>. DEFINE x == [job[j] EXCEPT !.pc = IF job[j].op = "delete" THEN "tokens" ELSE "role", !.counted = TRUE]
    <2>1. Done(j) \/ (Cardinality(enabled_admins) > 1 /\ job' = [job EXCEPT ![j] = x])
        BY <1>1, <1>3 DEF CountAdmins, Counted
    <2>2. Cardinality(enabled_admins) > 1 => enabled_admins \ {x.who} # {}
        BY SomeoneElse
    <2>. HIDE DEF x
    <2>. QED  BY <1>1, <2>1, <2>2, GuardKept, GuardSteps
<1>4. CASE Verify(j)
    <2>. DEFINE x == [job[j] EXCEPT !.pc = IF job[j].op = "login" THEN "token" ELSE "open",
                                    !.admin = IF acct[job[j].who].admin THEN "yes" ELSE "no"]
    <2>1. Done(j) \/ job' = [job EXCEPT ![j] = x]
        BY <1>1, <1>4 DEF Verify
    <2>2. x.counted = job[j].counted /\ x.who = job[j].who
        BY <1>1 DEF JobType
    <2>. HIDE DEF x
    <2>. QED  BY <1>1, <2>1, <2>2, GuardKept, GuardSteps
<1>5. CASE FindToken(j)
    <2>1. ASSUME NEW k, job' = [job EXCEPT ![j].pc = "mint", ![j].row = k] PROVE Guarded'
        <3>. DEFINE x == [job[j] EXCEPT !.pc = "mint", !.row = k]
        <3>1. job' = [job EXCEPT ![j] = x] /\ x.counted = job[j].counted /\ x.who = job[j].who
            BY <1>1, <2>1 DEF JobType
        <3>. HIDE DEF x
        <3>. QED  BY <1>1, <3>1, GuardKept
    <2>. QED  BY <1>1, <1>5, <2>1, GuardSteps DEF FindToken
<1>. QED  BY <1>2, <1>3, <1>4, <1>5

\* Writing an account: a removal by a count that stands leaves somebody, and no count
\* stands after a removal.
LEMMA GuardAtStrip ==
    ASSUME AccountsBase, Guarded, NEW j \in Jobs, NEW a \in Account, NEW x \in JobType, JobPlace(x),
           job[j].who \in Members, Strip(j, a, x),
           x.counted => job[j].counted /\ x.who = job[j].who
    PROVE  Guarded'
<1>. DEFINE m == job[j].who
            removes == m \in enabled_admins /\ (a.st # "on" \/ ~a.admin)
            goes == [job EXCEPT ![j] = x]
<1>1. /\ job \in [Jobs -> JobType] /\ acct \in [Members -> Account]
      /\ acct' = [acct EXCEPT ![m] = a]
      /\ job' = IF removes THEN [q \in Jobs |-> [goes[q] EXCEPT !.counted = FALSE]] ELSE goes
      /\ loose' = IF removes THEN ~job[j].counted ELSE loose
    BY DEF AccountsBase, Strip
<1>2. \A u \in Members : u # m => (u \in enabled_admins' <=> u \in enabled_admins)
    BY <1>1 DEF enabled_admins, Admins
<1>3. ~removes /\ m \in enabled_admins => m \in enabled_admins'
    BY <1>1 DEF enabled_admins, Admins
<1>4. enabled_admins \subseteq Members
    BY DEF enabled_admins, Admins
<1>5. \A q \in Jobs : goes[q] = (IF q = j THEN x ELSE job[q]) /\ goes[q] \in JobType
    BY <1>1
<1>6. CASE removes
    <2>1. \A q \in Jobs : job'[q].counted = FALSE
        BY <1>1, <1>5, <1>6 DEF JobType
    <2>2. job[j].counted => enabled_admins' # {}
        BY <1>2, <1>4 DEF Guarded
    <2>. QED  BY <1>1, <1>6, <2>1, <2>2 DEF Guarded
<1>7. CASE ~removes
    <2>1. enabled_admins \subseteq enabled_admins'
        BY <1>2, <1>3, <1>4, <1>7
    <2>2. \A q \in Jobs : job'[q].counted => job[q].counted /\ job'[q].who = job[q].who
        BY <1>1, <1>5, <1>7
    <2>. QED  BY <1>1, <1>7, <2>1, <2>2 DEF Guarded
<1>. QED  BY <1>6, <1>7

\* The three writes of an account keep the guard.
LEMMA GuardAtWrites ==
    ASSUME AccountsBase, Guarded, NEW j \in Jobs, DeleteAccount(j) \/ WriteRole(j) \/ WriteEnabled(j)
    PROVE  Guarded'
<1>0. /\ job \in [Jobs -> JobType] /\ job[j] \in JobType /\ JobPlace(job[j]) /\ acct \in [Members -> Account]
      /\ NoJob \in JobType /\ JobPlace(NoJob) /\ NoJob.counted = FALSE
    BY AccountsConstants DEF AccountsBase, NoJob, JobType, JobPlace, Setting, Kinds
<1>1. job[j].pc \in {"account", "role", "enable"} /\ job[j].who \in Members
    BY <1>0 DEF DeleteAccount, WriteRole, WriteEnabled, JobPlace
<1>2. acct[job[j].who] \in Account
    BY <1>0, <1>1
<1>3. CASE DeleteAccount(j)
    <2>1. Gone \in Account /\ Strip(j, Gone, NoJob)
        BY <1>3 DEF DeleteAccount, Gone, Account
    <2>. QED  BY <1>0, <1>1, <2>1, GuardAtStrip
<1>4. CASE WriteEnabled(j)
    <2>. DEFINE a == [acct[job[j].who] EXCEPT !.st = IF job[j].on = "yes" THEN "on" ELSE "off"]
    <2>1. a \in Account
        BY <1>2 DEF Account
    <2>2. Strip(j, a, NoJob) \/ (Done(j) /\ UNCHANGED <<acct, loose>>)
        BY <1>4 DEF WriteEnabled
    <2>. HIDE DEF a
    <2>. QED  BY <1>0, <1>1, <2>1, <2>2, GuardAtStrip, GuardSteps
<1>5. CASE WriteRole(j)
    <2>. DEFINE a == [acct[job[j].who] EXCEPT !.admin = job[j].admin = "yes"]
                x == [job[j] EXCEPT !.pc = "enable"]
    <2>1. a \in Account
        BY <1>2 DEF Account
    <2>2. job[j].pc = "role" /\ (Strip(j, a, x) \/ (NextStep(j, "enable") /\ UNCHANGED <<acct, loose>>))
        BY <1>5 DEF WriteRole
    <2>3. x \in JobType /\ JobPlace(x) /\ x.counted = job[j].counted /\ x.who = job[j].who
        BY <1>0, <2>2 DEF JobType, JobPlace
    <2>. HIDE DEF a, x
    <2>. QED  BY <1>0, <1>1, <2>1, <2>2, <2>3, GuardAtStrip, GuardSteps
<1>. QED  BY <1>3, <1>4, <1>5

\* Every other step.
LEMMA GuardElsewhere ==
    ASSUME AccountsBase, Guarded, [AccountsNext]_accountVars
    PROVE  \/ Guarded'
           \/ \E j \in Jobs : \/ LookTarget(j) \/ CountAdmins(j) \/ Verify(j) \/ FindToken(j) \/ JobFails(j)
                              \/ DeleteAccount(j) \/ WriteRole(j) \/ WriteEnabled(j)
<1>1. ASSUME UNCHANGED <<acct, loose, job>> PROVE Guarded'
    BY <1>1 DEF Guarded, enabled_admins, Admins
<1>2. ASSUME NEW j \in Jobs, NEW m \in Members,
             \/ StartDelete(j, m)
             \/ \E a, o \in {"yes", "no"} : StartPanelUpdate(j, m, a, o)
             \/ StartPutUpdate(j, m, "no", "keep") \/ StartPutUpdate(j, m, "keep", "no")
             \/ \E op \in {"login"} \cup Kinds : StartLogin(j, m, op)
      PROVE  Guarded'
    <2>1. ASSUME NEW r, Request(j, r), r.counted = FALSE PROVE Guarded'
        BY <2>1, GuardKept DEF Request
    <2>2. CASE StartDelete(j, m)
        BY <2>1, <2>2 DEF StartDelete, NoJob
    <2>3. CASE \E a, o \in {"yes", "no"} : StartPanelUpdate(j, m, a, o)
        BY <2>1, <2>3 DEF StartPanelUpdate, NoJob
    <2>4. CASE StartPutUpdate(j, m, "no", "keep") \/ StartPutUpdate(j, m, "keep", "no")
        BY <2>1, <2>4 DEF StartPutUpdate, NoJob
    <2>5. CASE \E op \in {"login"} \cup Kinds : StartLogin(j, m, op)
        BY <2>1, <2>5 DEF StartLogin, NoJob
    <2>. QED  BY <1>2, <2>2, <2>3, <2>4, <2>5
<1>3. ASSUME NEW j \in Jobs, DeleteTokens(j) \/ DeleteSessions(j) \/ MintToken(j) \/ OpenSession(j)
      PROVE  Guarded'
    <2>1. UNCHANGED <<acct, loose>> /\ (Done(j) \/ \E pc : NextStep(j, pc))
        BY <1>3 DEF DeleteTokens, DeleteSessions, MintToken, OpenSession
    <2>. QED  BY <2>1, GuardSteps
<1>4. ASSUME NEW m \in Members, NEW admin \in BOOLEAN, CreateUser(m, admin) PROVE Guarded'
    <2>1. enabled_admins \subseteq enabled_admins'
        BY <1>4 DEF CreateUser, enabled_admins, Admins, AccountsBase
    <2>2. UNCHANGED <<job, loose>>
        BY <1>4 DEF CreateUser
    <2>. QED  BY <2>1, <2>2 DEF Guarded
<1>5. ASSUME \/ \E m \in Members : Logout(m)
             \/ \E k \in DOMAIN toks : RotateToken(k) \/ DeleteToken(k)
             \/ \E s \in sess : CloseSession(s)
             \/ UNCHANGED accountVars
      PROVE  Guarded'
    BY <1>1, <1>5 DEF Logout, RotateToken, DeleteToken, CloseSession, accountVars
<1>. QED  BY <1>2, <1>3, <1>4, <1>5 DEF AccountsNext

\* With an enabled admin to begin with, an enabled admin is left, unless the last removal
\* was written without a count that stood: PUT /api/users/:id makes none, an account that
\* is no admin when looked at needs none, and a removal makes void the counts of others.
THEOREM AnAdminIsLeft ==
    ASSUME FirstAdmins # {}
    PROVE  AccountsSpec => []AdminLeft
<1>1. AccountsInit => Guarded
    <2>. SUFFICES ASSUME AccountsInit PROVE Guarded
        OBVIOUS
    <2>1. \A m \in FirstAdmins : m \in enabled_admins
        BY AccountsConstants DEF AccountsInit, enabled_admins, Admins
    <2>2. \A j \in Jobs : job[j].counted = FALSE
        BY DEF AccountsInit, NoJob
    <2>. QED  BY <2>1, <2>2 DEF Guarded
<1>2. AccountsBase /\ Guarded /\ [AccountsNext]_accountVars => Guarded'
    BY GuardElsewhere, GuardAtReads, GuardAtWrites
<1>3. AccountsBase /\ Guarded => AdminLeft
    BY DEF Guarded, AdminLeft
<1>. QED  BY <1>1, <1>2, <1>3, AccountsInvariance, PTL DEF AccountsSpec

-----------------------------------------------------------------------------
(* The board *)

DeskType ==
    [pc : {"idle", "find", "insert", "own", "vote", "count", "exists", "rate",
           "stars", "votes", "row"},
     user : Voters \cup {Blank}, game : Games \cup {Blank}, row : Asks \cup {Blank}]
AskType == [game : Games \cup {Blank}, by : Voters \cup {Blank}, n : Nat]

\* What the place of a handler says of its request: its row has been used.
DeskPlace(x, used) ==
    /\ x.pc \in {"find", "insert"} => x.game \in Games /\ x.user \in Voters
    /\ x.pc \in {"own", "vote", "count", "exists", "rate"} => x.user \in Voters
    /\ x.pc \in {"own", "vote", "count", "exists", "rate", "stars", "votes", "row"} => x.row \in used

\* Handlers at work; those that may still raise a row's number of votes; those that have
\* a vote of row r to count; and those that have row r's first vote to write.
Busy == {d \in Desks : desk[d].pc # "idle"}
Raising == {d \in Desks : desk[d].pc \in {"find", "insert", "vote", "count"}}
Counting(r) == {d \in Desks : desk[d].pc = "count" /\ desk[d].row = r}
Owning(r) == {d \in Desks : desk[d].pc = "own" /\ desk[d].row = r}
VotesOf(r) == {x \in votes : x[1] = r}

\* Types; a row's first vote is written once, by the request that inserted the row; and a
\* request to the board raises a row's number of votes at most once.
RowsFine ==
    /\ ask \in [Asks -> AskType]
    /\ \A r \in Asks : Exists(r) => r \in spent
    /\ spent \cup twice \cup cleared \subseteq Asks /\ twice \subseteq spent
    /\ votes \cup stars \subseteq Asks \X Voters /\ IsFiniteSet(votes)

DesksFine ==
    /\ desk \in [Desks -> DeskType]
    /\ \A d \in Desks : DeskPlace(desk[d], spent)
    /\ \A d, e \in Desks : desk[d].pc = "own" /\ desk[e].pc = "own" /\ desk[d].row = desk[e].row => d = e
    /\ \A d \in Desks : desk[d].pc = "own" => desk[d].row \notin twice
    /\ IsFiniteSet(Busy)

VisitsFine ==
    /\ visits \in 0 .. MaxVisits
    /\ \A r \in Asks : ask[r].n + Cardinality(Raising) <= visits

BoardBase == RowsFine /\ DesksFine /\ VisitsFine

\* What a handler's step does to the sets of handlers that are counted.
LEMMA DeskMoves ==
    ASSUME BoardBase, NEW d \in Desks, NEW x \in DeskType, desk' = [desk EXCEPT ![d] = x]
    PROVE  /\ desk' \in [Desks -> DeskType] /\ \A e \in Desks : desk'[e] = IF e = d THEN x ELSE desk[e]
           /\ IsFiniteSet(Busy')
           /\ IsFiniteSet(Raising) /\ IsFiniteSet(Raising')
           /\ Raising' = IF x.pc \in {"find", "insert", "vote", "count"} THEN Raising \cup {d} ELSE Raising \ {d}
           /\ \A r : /\ IsFiniteSet(Counting(r)) /\ IsFiniteSet(Owning(r))
                     /\ Counting(r)' = IF x.pc = "count" /\ x.row = r THEN Counting(r) \cup {d}
                                       ELSE Counting(r) \ {d}
                     /\ Owning(r)' = IF x.pc = "own" /\ x.row = r THEN Owning(r) \cup {d}
                                     ELSE Owning(r) \ {d}
<1>1. desk' \in [Desks -> DeskType] /\ \A e \in Desks : desk'[e] = IF e = d THEN x ELSE desk[e]
    BY DEF BoardBase, DesksFine
<1>2. IsFiniteSet(Busy)
    BY DEF BoardBase, DesksFine
<1>3. Busy' = IF x.pc # "idle" THEN Busy \cup {d} ELSE Busy \ {d}
    BY <1>1 DEF Busy
<1>4. IsFiniteSet(Busy')
    BY <1>2, <1>3, FS_AddElement, FS_RemoveElement
<1>5. Raising \subseteq Busy /\ Raising' \subseteq Busy'
    BY DEF Raising, Busy
<1>6. \A r : Counting(r) \subseteq Busy /\ Owning(r) \subseteq Busy
    BY DEF Counting, Owning, Busy
<1>7. IsFiniteSet(Raising) /\ IsFiniteSet(Raising')
    BY <1>2, <1>4, <1>5, FS_Subset
<1>8. \A r : IsFiniteSet(Counting(r)) /\ IsFiniteSet(Owning(r))
    BY <1>2, <1>6, FS_Subset
<1>9. Raising' = IF x.pc \in {"find", "insert", "vote", "count"} THEN Raising \cup {d} ELSE Raising \ {d}
    BY <1>1 DEF Raising
<1>10. ASSUME NEW r
       PROVE  /\ Counting(r)' = IF x.pc = "count" /\ x.row = r THEN Counting(r) \cup {d} ELSE Counting(r) \ {d}
              /\ Owning(r)' = IF x.pc = "own" /\ x.row = r THEN Owning(r) \cup {d} ELSE Owning(r) \ {d}
    BY <1>1 DEF Counting, Owning
<1>. QED  BY <1>1, <1>4, <1>7, <1>8, <1>9, <1>10

\* Their sizes.
LEMMA DeskCounts ==
    ASSUME BoardBase, NEW d \in Desks, NEW x \in DeskType, desk' = [desk EXCEPT ![d] = x]
    PROVE  /\ Cardinality(Raising) \in Nat /\ Cardinality(Raising') \in Nat
           /\ Cardinality(Raising') <= Cardinality(Raising) + 1
           /\ x.pc \in {"find", "insert", "vote", "count"} /\ d \in Raising
                => Cardinality(Raising') = Cardinality(Raising)
           /\ x.pc \notin {"find", "insert", "vote", "count"}
                => Cardinality(Raising') = Cardinality(Raising) - (IF d \in Raising THEN 1 ELSE 0)
           /\ \A r : /\ Cardinality(Counting(r)) \in Nat
                     /\ Cardinality(Counting(r)') =
                          Cardinality(Counting(r)) + (IF x.pc = "count" /\ x.row = r THEN 1 ELSE 0)
                                                   - (IF d \in Counting(r) THEN 1 ELSE 0)
                     /\ Cardinality(Owning(r)) \in Nat
                     /\ Cardinality(Owning(r)') =
                          Cardinality(Owning(r)) + (IF x.pc = "own" /\ x.row = r THEN 1 ELSE 0)
                                                 - (IF d \in Owning(r) THEN 1 ELSE 0)
<1>1. \A S : IsFiniteSet(S) =>
          /\ Cardinality(S) \in Nat
          /\ Cardinality(S \cup {d}) = Cardinality(S) + 1 - (IF d \in S THEN 1 ELSE 0)
          /\ Cardinality(S \ {d}) = Cardinality(S) - (IF d \in S THEN 1 ELSE 0)
    <2>. SUFFICES ASSUME NEW S, IsFiniteSet(S)
                  PROVE  /\ Cardinality(S) \in Nat
                         /\ Cardinality(S \cup {d}) = Cardinality(S) + 1 - (IF d \in S THEN 1 ELSE 0)
                         /\ Cardinality(S \ {d}) = Cardinality(S) - (IF d \in S THEN 1 ELSE 0)
        OBVIOUS
    <2>. QED  BY FS_CardinalityType, FS_AddElement, FS_RemoveElement
<1>2. /\ IsFiniteSet(Raising) /\ IsFiniteSet(Raising')
      /\ Raising' = IF x.pc \in {"find", "insert", "vote", "count"} THEN Raising \cup {d} ELSE Raising \ {d}
    BY DeskMoves
<1>3. /\ Cardinality(Raising) \in Nat /\ Cardinality(Raising') \in Nat
      /\ Cardinality(Raising') <= Cardinality(Raising) + 1
      /\ x.pc \in {"find", "insert", "vote", "count"} /\ d \in Raising
                => Cardinality(Raising') = Cardinality(Raising)
      /\ x.pc \notin {"find", "insert", "vote", "count"}
                => Cardinality(Raising') = Cardinality(Raising) - (IF d \in Raising THEN 1 ELSE 0)
    <2>1. /\ Cardinality(Raising) \in Nat /\ Cardinality(Raising') \in Nat
          /\ Cardinality(Raising \cup {d}) = Cardinality(Raising) + 1 - (IF d \in Raising THEN 1 ELSE 0)
          /\ Cardinality(Raising \ {d}) = Cardinality(Raising) - (IF d \in Raising THEN 1 ELSE 0)
        BY <1>1, <1>2
    <2>2. CASE x.pc \in {"find", "insert", "vote", "count"}
        <3>1. Raising' = Raising \cup {d}
            BY <1>2, <2>2
        <3>. QED  BY <2>1, <2>2, <3>1
    <2>3. CASE x.pc \notin {"find", "insert", "vote", "count"}
        <3>1. Raising' = Raising \ {d}
            BY <1>2, <2>3
        <3>. QED  BY <2>1, <2>3, <3>1
    <2>. QED  BY <2>2, <2>3
<1>4. ASSUME NEW r
      PROVE  /\ Cardinality(Counting(r)) \in Nat
             /\ Cardinality(Counting(r)') =
                  Cardinality(Counting(r)) + (IF x.pc = "count" /\ x.row = r THEN 1 ELSE 0)
                                           - (IF d \in Counting(r) THEN 1 ELSE 0)
    <2>1. IsFiniteSet(Counting(r))
          /\ Counting(r)' = IF x.pc = "count" /\ x.row = r THEN Counting(r) \cup {d} ELSE Counting(r) \ {d}
        BY DeskMoves
    <2>2. /\ Cardinality(Counting(r)) \in Nat
          /\ Cardinality(Counting(r) \cup {d}) = Cardinality(Counting(r)) + 1 - (IF d \in Counting(r) THEN 1 ELSE 0)
          /\ Cardinality(Counting(r) \ {d}) = Cardinality(Counting(r)) - (IF d \in Counting(r) THEN 1 ELSE 0)
        BY <1>1, <2>1
    <2>3. CASE x.pc = "count" /\ x.row = r
        BY <2>1, <2>2, <2>3
    <2>4. CASE ~(x.pc = "count" /\ x.row = r)
        BY <2>1, <2>2, <2>4
    <2>. QED  BY <2>3, <2>4
<1>5. ASSUME NEW r
      PROVE  /\ Cardinality(Owning(r)) \in Nat
             /\ Cardinality(Owning(r)') =
                  Cardinality(Owning(r)) + (IF x.pc = "own" /\ x.row = r THEN 1 ELSE 0)
                                         - (IF d \in Owning(r) THEN 1 ELSE 0)
    <2>1. IsFiniteSet(Owning(r))
          /\ Owning(r)' = IF x.pc = "own" /\ x.row = r THEN Owning(r) \cup {d} ELSE Owning(r) \ {d}
        BY DeskMoves
    <2>2. /\ Cardinality(Owning(r)) \in Nat
          /\ Cardinality(Owning(r) \cup {d}) = Cardinality(Owning(r)) + 1 - (IF d \in Owning(r) THEN 1 ELSE 0)
          /\ Cardinality(Owning(r) \ {d}) = Cardinality(Owning(r)) - (IF d \in Owning(r) THEN 1 ELSE 0)
        BY <1>1, <2>1
    <2>3. CASE x.pc = "own" /\ x.row = r
        BY <2>1, <2>2, <2>3
    <2>4. CASE ~(x.pc = "own" /\ x.row = r)
        BY <2>1, <2>2, <2>4
    <2>. QED  BY <2>3, <2>4
<1>. QED  BY <1>3, <1>4, <1>5

\* A handler's step that inserts no row and writes no row's first vote.
LEMMA DesksGo ==
    ASSUME BoardBase, NEW d \in Desks, NEW x \in DeskType, desk' = [desk EXCEPT ![d] = x],
           DeskPlace(x, spent), x.pc # "own", UNCHANGED <<spent, twice>>
    PROVE  DesksFine'
<1>1. /\ desk' \in [Desks -> DeskType] /\ \A e \in Desks : desk'[e] = IF e = d THEN x ELSE desk[e]
      /\ IsFiniteSet(Busy')
    BY DeskMoves
<1>. QED  BY <1>1 DEF DesksFine, BoardBase

\* A handler's step that raises no row's number of votes.
LEMMA VisitsGo ==
    ASSUME BoardBase, NEW d \in Desks, NEW x \in DeskType, desk' = [desk EXCEPT ![d] = x],
           x.pc \in {"find", "insert", "vote", "count"} => d \in Raising, UNCHANGED visits,
           \A r \in Asks : ask'[r].n \in Nat /\ ask'[r].n <= ask[r].n
    PROVE  VisitsFine'
<1>1. /\ Cardinality(Raising) \in Nat /\ Cardinality(Raising') \in Nat
      /\ Cardinality(Raising') <= Cardinality(Raising)
    <2>1. /\ Cardinality(Raising) \in Nat /\ Cardinality(Raising') \in Nat
          /\ x.pc \in {"find", "insert", "vote", "count"} /\ d \in Raising
                => Cardinality(Raising') = Cardinality(Raising)
          /\ x.pc \notin {"find", "insert", "vote", "count"}
                => Cardinality(Raising') = Cardinality(Raising) - (IF d \in Raising THEN 1 ELSE 0)
        BY DeskCounts
    <2>. QED  BY <2>1
<1>2. ASSUME NEW r \in Asks
      PROVE  ask'[r].n + Cardinality(Raising') <= visits'
    <2>1. ask[r].n \in Nat /\ ask[r].n + Cardinality(Raising) <= visits /\ visits \in Nat
        BY BoardConstants DEF BoardBase, RowsFine, AskType, VisitsFine
    <2>. QED  BY <1>1, <2>1
<1>. QED  BY <1>2 DEF BoardBase, VisitsFine

\* A handler sits down to a request.
LEMMA BoardSits ==
    ASSUME BoardBase, NEW d \in Desks, NEW x \in DeskType, Sit(d, x),
           DeskPlace(x, spent), x.pc # "own", UNCHANGED Tables
    PROVE  BoardBase'
<1>1. desk' = [desk EXCEPT ![d] = x] /\ visits < MaxVisits /\ visits' = visits + 1
      /\ UNCHANGED <<ask, spent, votes, stars, twice, cleared>>
    BY DEF Sit, Tables
<1>2. DesksFine'
    BY <1>1, DesksGo
<1>3. RowsFine'
    BY <1>1 DEF BoardBase, RowsFine, Exists
<1>4. /\ Cardinality(Raising) \in Nat /\ Cardinality(Raising') \in Nat
      /\ Cardinality(Raising') <= Cardinality(Raising) + 1
    BY <1>1, DeskCounts
<1>5. visits' \in 0 .. MaxVisits /\ visits \in Nat
    BY <1>1, BoardConstants DEF BoardBase, VisitsFine
<1>6. ASSUME NEW r \in Asks PROVE ask'[r].n + Cardinality(Raising') <= visits'
    <2>1. ask[r].n \in Nat /\ ask[r].n + Cardinality(Raising) <= visits
        BY DEF BoardBase, RowsFine, AskType, VisitsFine
    <2>. QED  BY <1>1, <1>4, <1>5, <2>1
<1>. QED  BY <1>2, <1>3, <1>5, <1>6 DEF BoardBase, VisitsFine

\* Requests to the board.
LEMMA BoardRequests ==
    ASSUME BoardBase, NEW d \in Desks,
           \/ \E u \in Voters, g \in Games : Ask(d, u, g)
           \/ \E u \in Voters, r \in Asks : Vote(d, u, r) \/ Rate(d, u, r)
           \/ \E r \in Asks : DeleteAsk(d, r)
    PROVE  BoardBase'
<1>0. NoDesk \in DeskType
    BY DEF NoDesk, DeskType
<1>1. ASSUME NEW u \in Voters, NEW g \in Games, Ask(d, u, g) PROVE BoardBase'
    <2>. DEFINE x == [NoDesk EXCEPT !.pc = "find", !.user = u, !.game = g]
    <2>1. x \in DeskType /\ DeskPlace(x, spent) /\ x.pc # "own"
        BY <1>0 DEF NoDesk, DeskType, DeskPlace
    <2>. QED  BY <1>1, <2>1, BoardSits DEF Ask
<1>2. ASSUME NEW u \in Voters, NEW r \in Asks, Vote(d, u, r) PROVE BoardBase'
    <2>. DEFINE x == [NoDesk EXCEPT !.pc = "vote", !.user = u, !.row = r]
    <2>1. x \in DeskType /\ DeskPlace(x, spent) /\ x.pc # "own"
        BY <1>0, <1>2 DEF NoDesk, DeskType, DeskPlace, Vote
    <2>. QED  BY <1>2, <2>1, BoardSits DEF Vote
<1>3. ASSUME NEW u \in Voters, NEW r \in Asks, Rate(d, u, r) PROVE BoardBase'
    <2>. DEFINE x == [NoDesk EXCEPT !.pc = "exists", !.user = u, !.row = r]
    <2>1. x \in DeskType /\ DeskPlace(x, spent) /\ x.pc # "own"
        BY <1>0, <1>3 DEF NoDesk, DeskType, DeskPlace, Rate
    <2>. QED  BY <1>3, <2>1, BoardSits DEF Rate
<1>4. ASSUME NEW r \in Asks, DeleteAsk(d, r) PROVE BoardBase'
    <2>. DEFINE x == [NoDesk EXCEPT !.pc = "stars", !.row = r]
    <2>0. r \in spent
        BY <1>4 DEF DeleteAsk, BoardBase, RowsFine
    <2>1. x \in DeskType /\ DeskPlace(x, spent) /\ x.pc # "own"
        BY <1>0, <2>0 DEF NoDesk, DeskType, DeskPlace
    <2>. QED  BY <1>4, <2>1, BoardSits DEF DeleteAsk
<1>. QED  BY <1>1, <1>2, <1>3, <1>4

\* A handler's step that inserts no row, writes no row's first vote and counts no vote.
LEMMA BoardGoes ==
    ASSUME BoardBase, NEW d \in Desks, NEW x \in DeskType, desk' = [desk EXCEPT ![d] = x],
           DeskPlace(x, spent), x.pc # "own",
           x.pc \in {"find", "insert", "vote", "count"} => d \in Raising,
           UNCHANGED <<spent, twice, visits>>, RowsFine',
           \A r \in Asks : ask'[r].n <= ask[r].n
    PROVE  BoardBase'
<1>1. DesksFine'
    BY DesksGo
<1>2. \A r \in Asks : ask'[r].n \in Nat
    BY DEF RowsFine, AskType
<1>3. VisitsFine'
    BY <1>2, VisitsGo
<1>. QED  BY <1>1, <1>3 DEF BoardBase

\* The same for one that goes on to a next statement, or ends, with its request unchanged.
LEMMA BoardOnward ==
    ASSUME BoardBase, NEW d \in Desks,
           \/ Rise(d)
           \/ \E pc \in {"insert", "rate", "votes", "row", "count"} :
                /\ Onward(d, pc)
                /\ pc = "insert" => desk[d].pc = "find"
                /\ pc = "rate" => desk[d].pc = "exists"
                /\ pc = "votes" => desk[d].pc = "stars"
                /\ pc = "row" => desk[d].pc = "votes"
                /\ pc = "count" => desk[d].pc = "vote",
           UNCHANGED <<spent, twice>>, RowsFine',
           \A r \in Asks : ask'[r].n <= ask[r].n
    PROVE  BoardBase'
<1>1. desk \in [Desks -> DeskType] /\ desk[d] \in DeskType /\ DeskPlace(desk[d], spent)
    BY DEF BoardBase, DesksFine
<1>2. CASE Rise(d)
    <2>1. NoDesk \in DeskType /\ DeskPlace(NoDesk, spent) /\ NoDesk.pc = "idle"
        BY DEF NoDesk, DeskType, DeskPlace
    <2>. QED  BY <1>2, <2>1, BoardGoes DEF Rise
<1>3. ASSUME NEW pc \in {"insert", "rate", "votes", "row", "count"}, Onward(d, pc),
             pc = "insert" => desk[d].pc = "find",
             pc = "rate" => desk[d].pc = "exists",
             pc = "votes" => desk[d].pc = "stars",
             pc = "row" => desk[d].pc = "votes",
             pc = "count" => desk[d].pc = "vote"
      PROVE  BoardBase'
    <2>. DEFINE x == [desk[d] EXCEPT !.pc = pc]
    <2>1. x \in DeskType /\ x.pc = pc /\ x.user = desk[d].user /\ x.game = desk[d].game /\ x.row = desk[d].row
        BY <1>1 DEF DeskType
    <2>2. desk' = [desk EXCEPT ![d] = x] /\ UNCHANGED visits
        BY <1>1, <1>3 DEF Onward
    <2>. HIDE DEF x
    <2>3. DeskPlace(x, spent)
        BY <1>1, <1>3, <2>1 DEF DeskPlace
    <2>4. x.pc \in {"find", "insert", "vote", "count"} => d \in Raising
        BY <1>3, <2>1 DEF Raising
    <2>. QED  BY <1>3, <2>1, <2>2, <2>3, <2>4, BoardGoes
<1>. QED  BY <1>2, <1>3

\* Statements that leave the rows' numbers alone.
LEMMA BoardStatements ==
    ASSUME BoardBase, NEW d \in Desks,
           \/ AskFails(d) \/ InsertVote(d) \/ CheckExists(d) \/ WriteStars(d)
           \/ DeleteStars(d) \/ DeleteVotes(d) \/ DeleteRow(d)
    PROVE  BoardBase'
<1>1. /\ RowsFine /\ DeskPlace(desk[d], spent) /\ spent \subseteq Asks
      /\ \A r \in Asks : ask[r] \in AskType /\ ask[r].n \in Nat /\ ask[r].n <= ask[r].n
    BY DEF BoardBase, DesksFine, RowsFine, AskType
<1>2. ASSUME UNCHANGED Tables PROVE RowsFine' /\ \A r \in Asks : ask'[r].n <= ask[r].n
    BY <1>1, <1>2 DEF RowsFine, Tables, Exists
<1>3. CASE AskFails(d)
    BY <1>2, <1>3, BoardOnward DEF AskFails, Tables
<1>4. CASE CheckExists(d)
    BY <1>2, <1>4, BoardOnward DEF CheckExists, Tables
<1>5. CASE InsertVote(d)
    <2>. DEFINE y == <<desk[d].row, desk[d].user>>
    <2>1. /\ desk[d].pc = "vote" /\ votes' = votes \cup {y}
          /\ UNCHANGED <<ask, spent, stars, twice, cleared>>
          /\ Onward(d, "count") \/ Rise(d)
        BY <1>5 DEF InsertVote, Voted
    <2>2. y \in Asks \X Voters
        BY <1>1, <2>1 DEF DeskPlace
    <2>. HIDE DEF y
    <2>3. IsFiniteSet(votes')
        BY <1>1, <2>1, FS_AddElement DEF RowsFine
    <2>4. RowsFine'
        BY <1>1, <2>1, <2>2, <2>3 DEF RowsFine, Exists
    <2>. QED  BY <1>1, <2>1, <2>4, BoardOnward
<1>6. CASE WriteStars(d)
    <2>1. /\ desk[d].pc = "rate" /\ stars' = stars \cup {<<desk[d].row, desk[d].user>>}
          /\ UNCHANGED <<ask, spent, votes, twice, cleared>> /\ Rise(d)
        BY <1>6 DEF WriteStars
    <2>2. <<desk[d].row, desk[d].user>> \in Asks \X Voters
        BY <1>1, <2>1 DEF DeskPlace
    <2>3. RowsFine'
        BY <1>1, <2>1, <2>2 DEF RowsFine, Exists
    <2>. QED  BY <1>1, <2>1, <2>3, BoardOnward
<1>7. CASE DeleteStars(d)
    <2>1. /\ desk[d].pc = "stars" /\ stars' \subseteq stars
          /\ UNCHANGED <<ask, spent, votes, twice, cleared>> /\ Onward(d, "votes")
        BY <1>7 DEF DeleteStars
    <2>2. RowsFine'
        BY <1>1, <2>1 DEF RowsFine, Exists
    <2>. QED  BY <1>1, <2>1, <2>2, BoardOnward
<1>8. CASE DeleteVotes(d)
    <2>1. /\ desk[d].pc = "votes" /\ votes' \subseteq votes /\ cleared' \subseteq cleared \cup {desk[d].row}
          /\ UNCHANGED <<ask, spent, stars, twice>> /\ Onward(d, "row")
        BY <1>8 DEF DeleteVotes
    <2>2. desk[d].row \in Asks
        BY <1>1, <2>1 DEF DeskPlace
    <2>3. IsFiniteSet(votes')
        BY <1>1, <2>1, FS_Subset DEF RowsFine
    <2>4. RowsFine'
        BY <1>1, <2>1, <2>2, <2>3 DEF RowsFine, Exists
    <2>. QED  BY <1>1, <2>1, <2>4, BoardOnward
<1>9. CASE DeleteRow(d)
    <2>1. /\ ask' = [ask EXCEPT ![desk[d].row] = NoAsk] \/ UNCHANGED ask
          /\ UNCHANGED <<spent, votes, stars, twice, cleared>> /\ Rise(d)
        BY <1>9 DEF DeleteRow
    <2>2. NoAsk \in AskType /\ NoAsk.game = Blank /\ NoAsk.n = 0
        BY DEF NoAsk, AskType
    <2>3. ask \in [Asks -> AskType]
        BY <1>1 DEF RowsFine
    <2>4. ask' \in [Asks -> AskType] /\ \A r \in Asks : ask'[r] \in {ask[r], NoAsk}
        BY <2>1, <2>2, <2>3
    <2>5. \A r \in Asks : ask'[r].n <= ask[r].n
        BY <1>1, <2>2, <2>4
    <2>6. RowsFine'
        BY <1>1, <2>1, <2>2, <2>4 DEF RowsFine, Exists
    <2>. QED  BY <2>1, <2>5, <2>6, BoardOnward
<1>. QED  BY <1>3, <1>4, <1>5, <1>6, <1>7, <1>8, <1>9

\* The search for a game on the board already.
LEMMA BoardFinds ==
    ASSUME BoardBase, NEW d \in Desks, FindAsk(d)
    PROVE  BoardBase'
<1>1. /\ desk \in [Desks -> DeskType] /\ desk[d] \in DeskType /\ DeskPlace(desk[d], spent)
      /\ desk[d].pc = "find" /\ desk[d].game \in Games /\ desk[d].user \in Voters
    BY DEF BoardBase, DesksFine, FindAsk, DeskPlace
<1>2. RowsFine' /\ UNCHANGED <<spent, twice>> /\ \A r \in Asks : ask'[r].n <= ask[r].n
    <2>1. UNCHANGED Tables /\ RowsFine
        BY DEF FindAsk, BoardBase
    <2>2. \A r \in Asks : ask[r] \in AskType
        BY <2>1 DEF RowsFine
    <2>. QED  BY <2>1, <2>2 DEF RowsFine, Tables, Exists, AskType
<1>3. CASE Onward(d, "insert")
    BY <1>1, <1>2, <1>3, BoardOnward
<1>4. ASSUME NEW r \in Asks, ask[r].game = desk[d].game,
             desk' = [desk EXCEPT ![d].pc = "vote", ![d].row = r], UNCHANGED visits
      PROVE  BoardBase'
    <2>. DEFINE x == [desk[d] EXCEPT !.pc = "vote", !.row = r]
    <2>1. desk' = [desk EXCEPT ![d] = x] /\ x \in DeskType /\ x.pc = "vote" /\ x.row = r /\ x.user = desk[d].user
        BY <1>1, <1>4 DEF DeskType
    <2>2. r \in spent
        BY <1>1, <1>4, BoardConstants DEF BoardBase, RowsFine, Exists
    <2>. HIDE DEF x
    <2>3. DeskPlace(x, spent) /\ d \in Raising
        BY <1>1, <2>1, <2>2 DEF DeskPlace, Raising
    <2>. QED  BY <1>2, <1>4, <2>1, <2>3, BoardGoes
<1>. QED  BY <1>3, <1>4 DEF FindAsk

\* The insertion of a row: its id is new, so no other request has its first vote to write.
LEMMA BoardInserts ==
    ASSUME BoardBase, NEW d \in Desks, NEW r \in Asks, InsertAsk(d, r)
    PROVE  BoardBase'
<1>. DEFINE x == [desk[d] EXCEPT !.pc = "own", !.row = r]
            a == [game |-> desk[d].game, by |-> desk[d].user, n |-> 1]
<1>1. /\ desk \in [Desks -> DeskType] /\ desk[d] \in DeskType /\ \A e \in Desks : DeskPlace(desk[e], spent)
      /\ desk[d].pc = "insert" /\ desk[d].game \in Games /\ desk[d].user \in Voters
      /\ r \notin spent /\ d \in Raising
    BY DEF BoardBase, DesksFine, InsertAsk, DeskPlace, Raising
<1>2. /\ desk' = [desk EXCEPT ![d] = x] /\ ask' = [ask EXCEPT ![r] = a] /\ spent' = spent \cup {r}
      /\ UNCHANGED <<visits, votes, stars, twice, cleared>>
    BY <1>1 DEF InsertAsk
<1>3. x \in DeskType /\ x.pc = "own" /\ x.row = r /\ x.user = desk[d].user
    BY <1>1 DEF DeskType
<1>4. a \in AskType /\ a.n = 1
    BY <1>1 DEF AskType
<1>. HIDE DEF x, a
<1>5. \A e \in Desks : desk'[e] = IF e = d THEN x ELSE desk[e]
    BY <1>1, <1>2
<1>6. RowsFine'
    <2>1. ask' \in [Asks -> AskType] /\ \A q \in Asks : ask'[q] = IF q = r THEN a ELSE ask[q]
        BY <1>2, <1>4 DEF BoardBase, RowsFine
    <2>. QED  BY <1>2, <2>1 DEF BoardBase, RowsFine, Exists
<1>7. DesksFine'
    <2>1. desk' \in [Desks -> DeskType] /\ IsFiniteSet(Busy')
        BY <1>2, <1>3, DeskMoves
    <2>2. \A e \in Desks : DeskPlace(desk'[e], spent')
        <3>1. \A e \in Desks : DeskPlace(desk[e], spent')
            BY <1>1, <1>2 DEF DeskPlace
        <3>2. DeskPlace(x, spent')
            BY <1>1, <1>2, <1>3 DEF DeskPlace
        <3>. QED  BY <1>5, <3>1, <3>2
    <2>3. \A e \in Desks : desk[e].pc = "own" => desk[e].row # r
        BY <1>1 DEF DeskPlace
    <2>4. \A e, f \in Desks : desk'[e].pc = "own" /\ desk'[f].pc = "own" /\ desk'[e].row = desk'[f].row => e = f
        BY <1>3, <1>5, <2>3 DEF BoardBase, DesksFine
    <2>5. \A e \in Desks : desk'[e].pc = "own" => desk'[e].row \notin twice'
        BY <1>1, <1>2, <1>3, <1>5 DEF BoardBase, DesksFine, RowsFine
    <2>. QED  BY <2>1, <2>2, <2>4, <2>5 DEF DesksFine
<1>8. VisitsFine'
    <2>1. /\ Cardinality(Raising) \in Nat /\ Cardinality(Raising') = Cardinality(Raising) - 1
          /\ Cardinality(Raising') \in Nat
        <3>1. /\ Cardinality(Raising) \in Nat /\ Cardinality(Raising') \in Nat
              /\ x.pc \notin {"find", "insert", "vote", "count"}
                   => Cardinality(Raising') = Cardinality(Raising) - (IF d \in Raising THEN 1 ELSE 0)
            BY <1>2, <1>3, DeskCounts
        <3>. QED  BY <1>1, <1>3, <3>1
    <2>2. ASSUME NEW q \in Asks PROVE ask'[q].n + Cardinality(Raising') <= visits'
        <3>1. ask[q].n \in Nat /\ ask[q].n + Cardinality(Raising) <= visits /\ visits \in Nat
            BY BoardConstants DEF BoardBase, RowsFine, AskType, VisitsFine
        <3>2. ask'[q] = IF q = r THEN a ELSE ask[q]
            BY <1>2 DEF BoardBase, RowsFine
        <3>3. CASE q = r
            <4>1. ask'[q].n = 1
                BY <1>4, <3>2, <3>3
            <4>. QED  BY <1>2, <2>1, <3>1, <4>1
        <3>4. CASE q # r
            <4>1. ask'[q].n = ask[q].n
                BY <3>2, <3>4
            <4>. QED  BY <1>2, <2>1, <3>1, <4>1
        <3>. QED  BY <3>3, <3>4
    <2>. QED  BY <1>2, <2>2 DEF BoardBase, VisitsFine
<1>. QED  BY <1>6, <1>7, <1>8 DEF BoardBase

\* The requester's own vote row.
LEMMA BoardOwns ==
    ASSUME BoardBase, NEW d \in Desks, OwnVote(d)
    PROVE  BoardBase'
<1>. DEFINE y == <<desk[d].row, desk[d].user>>
<1>1. /\ desk \in [Desks -> DeskType] /\ DeskPlace(desk[d], spent) /\ desk[d].pc = "own"
      /\ desk[d].row \in spent /\ desk[d].user \in Voters /\ spent \subseteq Asks
    BY DEF BoardBase, DesksFine, RowsFine, OwnVote, DeskPlace
<1>2. /\ votes' = votes \cup {y} \/ votes' = votes
      /\ twice \subseteq twice' /\ twice' \subseteq twice \cup {desk[d].row}
      /\ desk' = [desk EXCEPT ![d] = NoDesk] /\ UNCHANGED <<visits, ask, spent, stars, cleared>>
    BY DEF OwnVote, Rise
<1>3. NoDesk \in DeskType /\ NoDesk.pc = "idle" /\ DeskPlace(NoDesk, spent)
    BY DEF NoDesk, DeskType, DeskPlace
<1>4. y \in Asks \X Voters
    BY <1>1
<1>. HIDE DEF y
<1>5. RowsFine'
    <2>1. IsFiniteSet(votes')
        BY <1>2, FS_AddElement DEF BoardBase, RowsFine
    <2>. QED  BY <1>1, <1>2, <1>4, <2>1 DEF BoardBase, RowsFine, Exists
<1>6. DesksFine'
    <2>1. /\ desk' \in [Desks -> DeskType] /\ \A e \in Desks : desk'[e] = IF e = d THEN NoDesk ELSE desk[e]
          /\ IsFiniteSet(Busy')
        BY <1>2, <1>3, DeskMoves
    <2>2. \A e \in Desks \ {d} : desk[e].pc = "own" => desk[e].row # desk[d].row
        BY <1>1 DEF BoardBase, DesksFine
    <2>3. \A e \in Desks : desk'[e].pc = "own" => desk'[e].row \notin twice'
        BY <1>2, <1>3, <2>1, <2>2 DEF BoardBase, DesksFine
    <2>4. \A e \in Desks : DeskPlace(desk'[e], spent')
        BY <1>2, <1>3, <2>1 DEF BoardBase, DesksFine
    <2>5. \A e, f \in Desks : desk'[e].pc = "own" /\ desk'[f].pc = "own" /\ desk'[e].row = desk'[f].row => e = f
        BY <1>3, <2>1 DEF BoardBase, DesksFine
    <2>. QED  BY <2>1, <2>3, <2>4, <2>5 DEF DesksFine
<1>7. VisitsFine'
    <2>1. \A r \in Asks : ask'[r].n \in Nat /\ ask'[r].n <= ask[r].n
        BY <1>2 DEF BoardBase, RowsFine, AskType
    <2>. QED  BY <1>2, <1>3, <2>1, VisitsGo
<1>. QED  BY <1>5, <1>6, <1>7 DEF BoardBase

\* A vote is counted.
LEMMA BoardCounts ==
    ASSUME BoardBase, NEW d \in Desks, CountVote(d)
    PROVE  BoardBase'
<1>. DEFINE r == desk[d].row
<1>1. /\ desk \in [Desks -> DeskType] /\ DeskPlace(desk[d], spent) /\ desk[d].pc = "count"
      /\ r \in Asks /\ d \in Raising
      /\ ask \in [Asks -> AskType]
    BY DEF BoardBase, DesksFine, RowsFine, CountVote, DeskPlace, Raising
<1>2. /\ ask' = [ask EXCEPT ![r].n = IF Exists(r) THEN @ + 1 ELSE @] \/ ask' = ask
      /\ desk' = [desk EXCEPT ![d] = NoDesk] /\ UNCHANGED <<visits, spent, votes, stars, twice, cleared>>
    BY DEF CountVote, Rise
<1>3. NoDesk \in DeskType /\ NoDesk.pc = "idle" /\ DeskPlace(NoDesk, spent)
    BY DEF NoDesk, DeskType, DeskPlace
<1>4. DesksFine'
    BY <1>2, <1>3, DesksGo
<1>. DEFINE a == [ask[r] EXCEPT !.n = @ + 1]
<1>5. ask[r] \in AskType
    BY <1>1
<1>6. a \in AskType /\ a.game = ask[r].game /\ a.n = ask[r].n + 1
    BY <1>5 DEF AskType
<1>7. ask' = [ask EXCEPT ![r] = a] \/ ask' = ask
    <2>1. ask' = [ask EXCEPT ![r] = [ask[r] EXCEPT !.n = IF Exists(r) THEN @ + 1 ELSE @]] \/ ask' = ask
        BY <1>2
    <2>2. CASE Exists(r)
        BY <2>1, <2>2
    <2>3. CASE ~Exists(r)
        <3>1. [ask[r] EXCEPT !.n = ask[r].n] = ask[r]
            BY <1>5 DEF AskType
        <3>. QED  BY <1>1, <2>1, <2>3, <3>1
    <2>. QED  BY <2>2, <2>3
<1>. HIDE DEF a, r
<1>8. ask' \in [Asks -> AskType] /\ \A q \in Asks : ask'[q] = ask[q] \/ (q = r /\ ask'[q] = a)
    BY <1>1, <1>6, <1>7
<1>9. RowsFine'
    BY <1>2, <1>6, <1>8 DEF BoardBase, RowsFine, Exists
<1>10. VisitsFine'
    <2>1. /\ Cardinality(Raising) \in Nat /\ Cardinality(Raising') = Cardinality(Raising) - 1
          /\ Cardinality(Raising') \in Nat
        <3>1. /\ Cardinality(Raising) \in Nat /\ Cardinality(Raising') \in Nat
              /\ NoDesk.pc \notin {"find", "insert", "vote", "count"}
                   => Cardinality(Raising') = Cardinality(Raising) - (IF d \in Raising THEN 1 ELSE 0)
            BY <1>2, <1>3, DeskCounts
        <3>. QED  BY <1>1, <1>3, <3>1
    <2>2. ASSUME NEW q \in Asks PROVE ask'[q].n + Cardinality(Raising') <= visits'
        <3>1. ask[q].n \in Nat /\ ask[q].n + Cardinality(Raising) <= visits /\ visits \in Nat
            BY BoardConstants DEF BoardBase, RowsFine, AskType, VisitsFine
        <3>2. ask'[q].n = ask[q].n \/ ask'[q].n = ask[q].n + 1
            BY <1>6, <1>8
        <3>. QED  BY <1>2, <2>1, <3>1, <3>2
    <2>. QED  BY <1>2, <2>2 DEF BoardBase, VisitsFine
<1>. QED  BY <1>4, <1>9, <1>10 DEF BoardBase

\* What holds of the board in every state.
THEOREM BoardInvariance == BoardSpec => []BoardBase
<1>1. BoardInit => BoardBase
    <2>. SUFFICES ASSUME BoardInit PROVE BoardBase
        OBVIOUS
    <2>1. /\ NoDesk \in DeskType /\ NoDesk.pc = "idle" /\ DeskPlace(NoDesk, spent)
          /\ NoAsk \in AskType /\ NoAsk.game = Blank /\ NoAsk.n = 0
        BY DEF NoDesk, DeskType, DeskPlace, NoAsk, AskType
    <2>2. desk = [d \in Desks |-> NoDesk] /\ ask = [r \in Asks |-> NoAsk] /\ visits = 0
          /\ spent = {} /\ votes = {} /\ stars = {} /\ twice = {} /\ cleared = {}
        BY DEF BoardInit
    <2>3. Busy = {} /\ Raising = {}
        BY <2>1, <2>2 DEF Busy, Raising
    <2>4. RowsFine
        BY <2>1, <2>2, FS_EmptySet DEF RowsFine, Exists
    <2>5. DesksFine
        BY <2>1, <2>2, <2>3, FS_EmptySet DEF DesksFine
    <2>6. Cardinality(Raising) = 0
        BY <2>3, FS_EmptySet
    <2>7. VisitsFine
        BY <2>1, <2>2, <2>6, BoardConstants DEF VisitsFine
    <2>. QED  BY <2>4, <2>5, <2>7 DEF BoardBase
<1>2. BoardBase /\ [BoardNext]_boardVars => BoardBase'
    <2>. SUFFICES ASSUME BoardBase, [BoardNext]_boardVars PROVE BoardBase'
        OBVIOUS
    <2>1. CASE UNCHANGED boardVars
        BY <2>1 DEF boardVars, BoardBase, RowsFine, DesksFine, VisitsFine, Busy, Raising, Exists
    <2>2. ASSUME NEW d \in Desks,
                 \/ AskFails(d) \/ InsertVote(d) \/ CheckExists(d) \/ WriteStars(d)
                 \/ DeleteStars(d) \/ DeleteVotes(d) \/ DeleteRow(d)
          PROVE  BoardBase'
        BY <2>2, BoardStatements
    <2>3. ASSUME NEW d \in Desks,
                 FindAsk(d) \/ OwnVote(d) \/ CountVote(d) \/ \E r \in Asks : InsertAsk(d, r)
          PROVE  BoardBase'
        BY <2>3, BoardFinds, BoardOwns, BoardCounts, BoardInserts
    <2>. QED
        BY <2>1, <2>2, <2>3, BoardRequests DEF BoardNext
<1>. QED  BY <1>1, <1>2, PTL DEF BoardSpec

\* The types of the board are those of the model; a row shows at most one vote for each
\* request the board had.
THEOREM BoardTypes == BoardSpec => []BoardTypeOK
<1>1. BoardBase => BoardTypeOK
    <2>. SUFFICES ASSUME BoardBase PROVE BoardTypeOK
        OBVIOUS
    <2>1. Raising \subseteq Busy /\ IsFiniteSet(Busy)
        BY DEF Raising, Busy, BoardBase, DesksFine
    <2>2. Cardinality(Raising) \in Nat
        BY <2>1, FS_Subset, FS_CardinalityType
    <2>3. \A r \in Asks : ask[r] \in AskType /\ ask[r].n + Cardinality(Raising) <= visits
        BY DEF BoardBase, RowsFine, VisitsFine
    <2>4. \A r \in Asks : ask[r].n \in Nat
        BY <2>3 DEF AskType
    <2>5. \A r \in Asks : ask[r].n \in 0 .. MaxVisits
        BY <2>2, <2>3, <2>4, BoardConstants DEF BoardBase, VisitsFine
    <2>6. \A r \in Asks : ask[r] \in [game : Games \cup {Blank}, by : Voters \cup {Blank}, n : 0 .. MaxVisits]
        BY <2>3, <2>5 DEF AskType
    <2>7. ask \in [Asks -> [game : Games \cup {Blank}, by : Voters \cup {Blank}, n : 0 .. MaxVisits]]
        BY <2>6 DEF BoardBase, RowsFine
    <2>. QED  BY <2>7 DEF BoardBase, RowsFine, DesksFine, VisitsFine, BoardTypeOK, DeskType
<1>. QED  BY <1>1, BoardInvariance, PTL

\* Row r shows no more votes than it has voters.
Tally(r) ==
    ask[r].n + Cardinality(Counting(r))
      <= Cardinality(VotesOf(r)) + Cardinality(Owning(r)) + (IF r \in twice THEN 1 ELSE 0)

\* The numbers that are compared, before and after a handler's step.
LEMMA TallyNumbers ==
    ASSUME BoardBase, BoardBase', NEW d \in Desks, NEW x \in DeskType, desk' = [desk EXCEPT ![d] = x],
           NEW r \in Asks
    PROVE  /\ ask[r].n \in Nat /\ ask'[r].n \in Nat
           /\ Cardinality(VotesOf(r)) \in Nat /\ Cardinality(VotesOf(r)') \in Nat
           /\ Cardinality(Counting(r)) \in Nat /\ Cardinality(Owning(r)) \in Nat
           /\ Cardinality(Counting(r)') =
                Cardinality(Counting(r)) + (IF x.pc = "count" /\ x.row = r THEN 1 ELSE 0)
                                         - (IF d \in Counting(r) THEN 1 ELSE 0)
           /\ Cardinality(Owning(r)') =
                Cardinality(Owning(r)) + (IF x.pc = "own" /\ x.row = r THEN 1 ELSE 0)
                                       - (IF d \in Owning(r) THEN 1 ELSE 0)
<1>1. ask[r] \in AskType /\ ask'[r] \in AskType /\ IsFiniteSet(votes) /\ IsFiniteSet(votes')
    BY DEF BoardBase, RowsFine
<1>2. ask[r].n \in Nat /\ ask'[r].n \in Nat
    BY <1>1 DEF AskType
<1>3. VotesOf(r) \subseteq votes /\ VotesOf(r)' \subseteq votes'
    BY DEF VotesOf
<1>4. Cardinality(VotesOf(r)) \in Nat /\ Cardinality(VotesOf(r)') \in Nat
    BY <1>1, <1>3, FS_Subset, FS_CardinalityType
<1>. QED  BY <1>2, <1>4, DeskCounts

\* A step that adds no vote to count and takes away no voter.
LEMMA TallyKept ==
    ASSUME BoardBase, BoardBase', NEW d \in Desks, NEW x \in DeskType, desk' = [desk EXCEPT ![d] = x],
           x.pc \notin {"own", "count"}, desk[d].pc # "own", UNCHANGED twice,
           NEW r \in Asks, Tally(r), VotesOf(r)' = VotesOf(r), ask'[r].n = ask[r].n
    PROVE  Tally(r)'
<1>1. d \notin Owning(r)
    BY DEF Owning
<1>2. Cardinality(Owning(r)') = Cardinality(Owning(r)) /\ Cardinality(Owning(r)) \in Nat
    <2>1. /\ Cardinality(Owning(r)) \in Nat
          /\ Cardinality(Owning(r)') =
                Cardinality(Owning(r)) + (IF x.pc = "own" /\ x.row = r THEN 1 ELSE 0)
                                       - (IF d \in Owning(r) THEN 1 ELSE 0)
        BY TallyNumbers
    <2>. QED  BY <1>1, <2>1
<1>3. Cardinality(Counting(r)') <= Cardinality(Counting(r))
      /\ Cardinality(Counting(r)') \in Int /\ Cardinality(Counting(r)) \in Nat
    <2>1. /\ Cardinality(Counting(r)) \in Nat
          /\ Cardinality(Counting(r)') =
                Cardinality(Counting(r)) + (IF x.pc = "count" /\ x.row = r THEN 1 ELSE 0)
                                         - (IF d \in Counting(r) THEN 1 ELSE 0)
        BY TallyNumbers
    <2>. QED  BY <2>1
<1>4. ask[r].n \in Nat /\ Cardinality(VotesOf(r)) \in Nat
    BY TallyNumbers
<1>. QED  BY <1>2, <1>3, <1>4 DEF Tally

\* For all rows at once: those whose votes a deletion has removed are exempt.
LEMMA TalliesKept ==
    ASSUME BoardBase, BoardBase', VotesCounted,
           NEW d \in Desks, NEW x \in DeskType, desk' = [desk EXCEPT ![d] = x],
           x.pc \notin {"own", "count"}, desk[d].pc # "own", UNCHANGED twice, cleared \subseteq cleared',
           \A r \in Asks \ cleared' : VotesOf(r)' = VotesOf(r),
           \A r \in Asks : Exists(r)' => Exists(r) /\ ask'[r].n = ask[r].n
    PROVE  VotesCounted'
<1>1. ASSUME NEW r \in Asks \ cleared', Exists(r)' PROVE Tally(r)'
    <2>1. Exists(r) /\ ask'[r].n = ask[r].n /\ VotesOf(r)' = VotesOf(r) /\ r \in Asks /\ r \notin cleared
        BY <1>1
    <2>2. Tally(r)
        BY <2>1 DEF VotesCounted, Tally, VotesOf, Counting, Owning
    <2>. QED  BY <2>1, <2>2, TallyKept
<1>. QED  BY <1>1 DEF VotesCounted, Tally, VotesOf, Counting, Owning

\* The steps that leave the numbers alone.
LEMMA TallyElsewhere ==
    ASSUME BoardBase, BoardBase', VotesCounted, NEW d \in Desks,
           \/ AskFails(d) \/ FindAsk(d) \/ CheckExists(d) \/ WriteStars(d)
           \/ DeleteStars(d) \/ DeleteVotes(d) \/ DeleteRow(d)
           \/ \E u \in Voters, g \in Games : Ask(d, u, g)
           \/ \E u \in Voters, r \in Asks : Vote(d, u, r) \/ Rate(d, u, r)
           \/ \E r \in Asks : DeleteAsk(d, r)
    PROVE  VotesCounted'
<1>0. desk \in [Desks -> DeskType] /\ desk' \in [Desks -> DeskType]
    BY DEF BoardBase, DesksFine
<1>a. NoDesk.pc = "idle"
    BY DEF NoDesk
<1>1. desk[d].pc # "own"
    <2>1. CASE AskFails(d) \/ FindAsk(d) \/ CheckExists(d) \/ WriteStars(d)
               \/ DeleteStars(d) \/ DeleteVotes(d) \/ DeleteRow(d)
        BY <2>1 DEF AskFails, FindAsk, CheckExists, WriteStars, DeleteStars, DeleteVotes, DeleteRow
    <2>2. CASE \/ \E u \in Voters, g \in Games : Ask(d, u, g)
               \/ \E u \in Voters, r \in Asks : Vote(d, u, r) \/ Rate(d, u, r)
               \/ \E r \in Asks : DeleteAsk(d, r)
        BY <1>a, <2>2 DEF Ask, Vote, Rate, DeleteAsk, Sit
    <2>. QED  BY <2>1, <2>2
<1>2. \E x : desk' = [desk EXCEPT ![d] = x] /\ x.pc \notin {"own", "count"}
    <2>1. ASSUME NEW pc \in {"insert", "rate", "votes", "row"}, Onward(d, pc)
          PROVE  \E x : desk' = [desk EXCEPT ![d] = x] /\ x.pc \notin {"own", "count"}
        <3>1. desk' = [desk EXCEPT ![d] = [desk[d] EXCEPT !.pc = pc]] /\ [desk[d] EXCEPT !.pc = pc].pc = pc
            BY <1>0, <2>1 DEF Onward, DeskType
        <3>. QED  BY <3>1
    <2>2. ASSUME Rise(d)
          PROVE  \E x : desk' = [desk EXCEPT ![d] = x] /\ x.pc \notin {"own", "count"}
        <3>1. desk' = [desk EXCEPT ![d] = NoDesk] /\ NoDesk.pc \notin {"own", "count"}
            BY <1>a, <2>2 DEF Rise
        <3>. QED  BY <3>1
    <2>3. ASSUME NEW r, desk' = [desk EXCEPT ![d].pc = "vote", ![d].row = r]
          PROVE  \E x : desk' = [desk EXCEPT ![d] = x] /\ x.pc \notin {"own", "count"}
        <3>1. /\ desk' = [desk EXCEPT ![d] = [desk[d] EXCEPT !.pc = "vote", !.row = r]]
              /\ [desk[d] EXCEPT !.pc = "vote", !.row = r].pc = "vote"
            BY <1>0, <2>3 DEF DeskType
        <3>. QED  BY <3>1
    <2>4. CASE \/ \E u \in Voters, g \in Games : Ask(d, u, g)
               \/ \E u \in Voters, r \in Asks : Vote(d, u, r) \/ Rate(d, u, r)
               \/ \E r \in Asks : DeleteAsk(d, r)
        <3>1. ASSUME NEW x, Sit(d, x), x.pc \in {"find", "vote", "exists", "stars"}
              PROVE  \E z : desk' = [desk EXCEPT ![d] = z] /\ z.pc \notin {"own", "count"}
            <4>1. desk' = [desk EXCEPT ![d] = x] /\ x.pc \notin {"own", "count"}
                BY <3>1 DEF Sit
            <4>. QED  BY <4>1
        <3>2. ASSUME NEW u, NEW g, Ask(d, u, g)
              PROVE  \E x : Sit(d, x) /\ x.pc \in {"find", "vote", "exists", "stars"}
            <4>. DEFINE x == [NoDesk EXCEPT !.pc = "find", !.user = u, !.game = g]
            <4>1. Sit(d, x) /\ x.pc = "find"
                BY <3>2 DEF Ask, NoDesk
            <4>. HIDE DEF x
            <4>. QED  BY <4>1
        <3>3. ASSUME NEW u, NEW r, Vote(d, u, r)
              PROVE  \E x : Sit(d, x) /\ x.pc \in {"find", "vote", "exists", "stars"}
            <4>. DEFINE x == [NoDesk EXCEPT !.pc = "vote", !.user = u, !.row = r]
            <4>1. Sit(d, x) /\ x.pc = "vote"
                BY <3>3 DEF Vote, NoDesk
            <4>. HIDE DEF x
            <4>. QED  BY <4>1
        <3>4. ASSUME NEW u, NEW r, Rate(d, u, r)
              PROVE  \E x : Sit(d, x) /\ x.pc \in {"find", "vote", "exists", "stars"}
            <4>. DEFINE x == [NoDesk EXCEPT !.pc = "exists", !.user = u, !.row = r]
            <4>1. Sit(d, x) /\ x.pc = "exists"
                BY <3>4 DEF Rate, NoDesk
            <4>. HIDE DEF x
            <4>. QED  BY <4>1
        <3>5. ASSUME NEW r, DeleteAsk(d, r)
              PROVE  \E x : Sit(d, x) /\ x.pc \in {"find", "vote", "exists", "stars"}
            <4>. DEFINE x == [NoDesk EXCEPT !.pc = "stars", !.row = r]
            <4>1. Sit(d, x) /\ x.pc = "stars"
                BY <3>5 DEF DeleteAsk, NoDesk
            <4>. HIDE DEF x
            <4>. QED  BY <4>1
        <3>. QED  BY <2>4, <3>1, <3>2, <3>3, <3>4, <3>5
    <2>5. CASE FindAsk(d)
        BY <2>1, <2>3, <2>5 DEF FindAsk
    <2>6. CASE AskFails(d) \/ CheckExists(d) \/ WriteStars(d) \/ DeleteStars(d) \/ DeleteVotes(d) \/ DeleteRow(d)
        BY <2>1, <2>2, <2>6 DEF AskFails, CheckExists, WriteStars, DeleteStars, DeleteVotes, DeleteRow
    <2>. QED  BY <2>4, <2>5, <2>6
<1>3. PICK x : desk' = [desk EXCEPT ![d] = x] /\ x.pc \notin {"own", "count"}
    BY <1>2
<1>4. x \in DeskType
    BY <1>0, <1>3
<1>5. UNCHANGED twice /\ cleared \subseteq cleared'
    BY DEF AskFails, FindAsk, CheckExists, WriteStars, DeleteStars, DeleteVotes, DeleteRow,
           Ask, Vote, Rate, DeleteAsk, Sit, Tables
<1>6. \A r \in Asks \ cleared' : VotesOf(r)' = VotesOf(r)
    <2>1. CASE DeleteVotes(d)
        BY <2>1 DEF DeleteVotes, VotesOf
    <2>2. CASE UNCHANGED votes
        BY <2>2 DEF VotesOf
    <2>. QED
        BY <2>1, <2>2 DEF AskFails, FindAsk, CheckExists, WriteStars, DeleteStars, DeleteRow,
                          Ask, Vote, Rate, DeleteAsk, Tables
<1>7. \A r \in Asks : Exists(r)' => Exists(r) /\ ask'[r].n = ask[r].n
    <2>1. CASE DeleteRow(d)
        BY <2>1 DEF DeleteRow, Exists, NoAsk, BoardBase, RowsFine
    <2>2. CASE UNCHANGED ask
        BY <2>2 DEF Exists
    <2>. QED
        BY <2>1, <2>2 DEF AskFails, FindAsk, CheckExists, WriteStars, DeleteStars, DeleteVotes,
                          Ask, Vote, Rate, DeleteAsk, Tables
<1>. QED  BY <1>1, <1>3, <1>4, <1>5, <1>6, <1>7, TalliesKept

\* A row is inserted: one vote, its requester's, whose own row is still to be written, and
\* no vote to count, since nobody has seen the row before.
LEMMA TallyInserts ==
    ASSUME BoardBase, BoardBase', VotesCounted, NEW d \in Desks, NEW r \in Asks, InsertAsk(d, r)
    PROVE  VotesCounted'
<1>. DEFINE x == [desk[d] EXCEPT !.pc = "own", !.row = r]
<1>0. desk \in [Desks -> DeskType] /\ desk' \in [Desks -> DeskType] /\ desk[d] \in DeskType
      /\ \A e \in Desks : DeskPlace(desk[e], spent)
    BY DEF BoardBase, DesksFine
<1>1. desk' = [desk EXCEPT ![d] = x] /\ x \in DeskType /\ x.pc = "own" /\ x.row = r
    BY <1>0 DEF InsertAsk, DeskType
<1>2. desk[d].pc = "insert" /\ r \notin spent /\ UNCHANGED <<votes, twice, cleared>>
      /\ \A q \in Asks : q # r => ask'[q] = ask[q]
    BY DEF InsertAsk, BoardBase, RowsFine
<1>3. ask'[r].n = 1
    BY DEF InsertAsk, BoardBase, RowsFine
<1>. HIDE DEF x
<1>4. ASSUME NEW q \in Asks \ cleared', Exists(q)' PROVE Tally(q)'
    <2>1. /\ ask[q].n \in Nat /\ Cardinality(VotesOf(q)) \in Nat /\ Cardinality(VotesOf(q)') \in Nat
          /\ Cardinality(Counting(q)) \in Nat /\ Cardinality(Owning(q)) \in Nat
        BY <1>1, TallyNumbers
    <2>2. d \notin Counting(q) /\ d \notin Owning(q) /\ VotesOf(q)' = VotesOf(q)
        BY <1>2 DEF Counting, Owning, VotesOf
    <2>3. Cardinality(Counting(q)') = Cardinality(Counting(q))
        <3>1. Cardinality(Counting(q)') =
                Cardinality(Counting(q)) + (IF x.pc = "count" /\ x.row = q THEN 1 ELSE 0)
                                         - (IF d \in Counting(q) THEN 1 ELSE 0)
            BY <1>1, TallyNumbers
        <3>. QED  BY <1>1, <2>1, <2>2, <3>1
    <2>4. Cardinality(Owning(q)') = Cardinality(Owning(q)) + (IF q = r THEN 1 ELSE 0)
        <3>1. Cardinality(Owning(q)') =
                Cardinality(Owning(q)) + (IF x.pc = "own" /\ x.row = q THEN 1 ELSE 0)
                                       - (IF d \in Owning(q) THEN 1 ELSE 0)
            BY <1>1, TallyNumbers
        <3>. QED  BY <1>1, <2>1, <2>2, <3>1
    <2>5. CASE q = r
        <3>1. Counting(q) = {}
            BY <1>0, <1>2, <2>5 DEF Counting, DeskPlace
        <3>2. Cardinality(Counting(q)) = 0
            BY <3>1, FS_EmptySet
        <3>. QED  BY <1>2, <1>3, <2>1, <2>2, <2>3, <2>4, <2>5, <3>2 DEF Tally
    <2>6. CASE q # r
        <3>1. Exists(q) /\ q \in Asks \ cleared
            BY <1>2, <1>4, <2>6 DEF Exists
        <3>2. Tally(q)
            BY <3>1 DEF VotesCounted, Tally, VotesOf, Counting, Owning
        <3>. QED  BY <1>2, <2>1, <2>2, <2>3, <2>4, <2>6, <3>2 DEF Tally
    <2>. QED  BY <2>5, <2>6
<1>. QED  BY <1>4 DEF VotesCounted, Tally, VotesOf, Counting, Owning

\* The requester's own vote row: a voter more, or the row is noted in twice for the first time.
LEMMA TallyOwns ==
    ASSUME BoardBase, BoardBase', VotesCounted, NEW d \in Desks, OwnVote(d)
    PROVE  VotesCounted'
<1>. DEFINE r == desk[d].row
            y == <<desk[d].row, desk[d].user>>
<1>0. desk \in [Desks -> DeskType] /\ desk[d] \in DeskType /\ NoDesk \in DeskType /\ NoDesk.pc = "idle"
    BY DEF BoardBase, DesksFine, NoDesk, DeskType
<1>1. /\ desk[d].pc = "own" /\ desk' = [desk EXCEPT ![d] = NoDesk] /\ UNCHANGED <<ask, cleared>>
      /\ \/ votes' = votes \cup {y} /\ twice' = IF y \in votes THEN twice \cup {r} ELSE twice
         \/ UNCHANGED votes /\ twice' = twice \cup {r}
    BY DEF OwnVote, Rise
<1>2. r \notin twice /\ y[1] = r
    BY <1>1 DEF BoardBase, DesksFine
<1>. HIDE DEF r, y
<1>3. ASSUME NEW q \in Asks \ cleared', Exists(q)' PROVE Tally(q)'
    <2>1. /\ ask[q].n \in Nat /\ Cardinality(VotesOf(q)) \in Nat /\ Cardinality(VotesOf(q)') \in Nat
          /\ Cardinality(Counting(q)) \in Nat /\ Cardinality(Owning(q)) \in Nat
        BY <1>0, <1>1, TallyNumbers
    <2>2. d \notin Counting(q) /\ (d \in Owning(q) <=> q = r)
        BY <1>1 DEF Counting, Owning, r
    <2>3. Cardinality(Counting(q)') = Cardinality(Counting(q))
        <3>1. Cardinality(Counting(q)') =
                Cardinality(Counting(q)) + (IF NoDesk.pc = "count" /\ NoDesk.row = q THEN 1 ELSE 0)
                                         - (IF d \in Counting(q) THEN 1 ELSE 0)
            BY <1>0, <1>1, TallyNumbers
        <3>. QED  BY <1>0, <2>1, <2>2, <3>1
    <2>4. Cardinality(Owning(q)') = Cardinality(Owning(q)) - (IF q = r THEN 1 ELSE 0)
        <3>1. Cardinality(Owning(q)') =
                Cardinality(Owning(q)) + (IF NoDesk.pc = "own" /\ NoDesk.row = q THEN 1 ELSE 0)
                                       - (IF d \in Owning(q) THEN 1 ELSE 0)
            BY <1>0, <1>1, TallyNumbers
        <3>. QED  BY <1>0, <2>1, <2>2, <3>1
    <2>5. Exists(q) /\ q \in Asks \ cleared /\ ask'[q].n = ask[q].n
        BY <1>1, <1>3 DEF Exists
    <2>6. Tally(q)
        BY <2>5 DEF VotesCounted, Tally, VotesOf, Counting, Owning
    <2>7. CASE q = r
        <3>1. CASE r \in twice'
            <4>1. votes' = votes
                BY <1>1, <1>2, <3>1
            <4>2. VotesOf(q)' = VotesOf(q)
                BY <4>1 DEF VotesOf
            <4>. QED  BY <1>2, <2>1, <2>3, <2>4, <2>5, <2>6, <2>7, <3>1, <4>2 DEF Tally
        <3>2. CASE r \notin twice'
            <4>1. votes' = votes \cup {y} /\ y \notin votes
                BY <1>1, <3>2
            <4>2. VotesOf(q)' = VotesOf(q) \cup {y} /\ y \notin VotesOf(q)
                BY <1>2, <2>7, <4>1 DEF VotesOf
            <4>3. IsFiniteSet(VotesOf(q))
                BY FS_Subset DEF VotesOf, BoardBase, RowsFine
            <4>4. Cardinality(VotesOf(q)') = Cardinality(VotesOf(q)) + 1
                BY <4>2, <4>3, FS_AddElement
            <4>. QED  BY <1>2, <2>1, <2>3, <2>4, <2>5, <2>6, <2>7, <3>2, <4>4 DEF Tally
        <3>. QED  BY <3>1, <3>2
    <2>8. CASE q # r
        <3>1. VotesOf(q)' = VotesOf(q) /\ (q \in twice' <=> q \in twice)
            BY <1>1, <1>2, <2>8 DEF VotesOf
        <3>. QED  BY <2>1, <2>3, <2>4, <2>5, <2>6, <2>8, <3>1 DEF Tally
    <2>. QED  BY <2>7, <2>8
<1>. QED  BY <1>3 DEF VotesCounted, Tally, VotesOf, Counting, Owning

\* A vote row: a new one is a voter more, and a vote to count.
LEMMA TallyVotes ==
    ASSUME BoardBase, BoardBase', VotesCounted, NEW d \in Desks, InsertVote(d)
    PROVE  VotesCounted'
<1>. DEFINE r == desk[d].row
            y == <<desk[d].row, desk[d].user>>
            x == [desk[d] EXCEPT !.pc = "count"]
<1>0. desk \in [Desks -> DeskType] /\ desk[d] \in DeskType /\ NoDesk \in DeskType /\ NoDesk.pc = "idle"
      /\ desk[d].pc = "vote"
    BY DEF BoardBase, DesksFine, NoDesk, DeskType, InsertVote, Voted
<1>1. /\ votes' = votes \cup {y} /\ UNCHANGED <<ask, twice, cleared>>
      /\ IF y \notin votes THEN desk' = [desk EXCEPT ![d] = x] ELSE desk' = [desk EXCEPT ![d] = NoDesk]
    BY <1>0 DEF InsertVote, Voted, Onward, Rise
<1>2. y[1] = r /\ x \in DeskType /\ x.pc = "count" /\ x.row = r
    BY <1>0 DEF DeskType
<1>. HIDE DEF r, y, x
<1>3. CASE y \in votes
    <2>1. votes' = votes /\ desk' = [desk EXCEPT ![d] = NoDesk]
        BY <1>1, <1>3
    <2>2. \A q \in Asks \ cleared' : VotesOf(q)' = VotesOf(q)
        BY <2>1 DEF VotesOf
    <2>3. \A q \in Asks : Exists(q)' => Exists(q) /\ ask'[q].n = ask[q].n
        BY <1>1 DEF Exists
    <2>. QED  BY <1>0, <1>1, <2>1, <2>2, <2>3, TalliesKept
<1>4. CASE y \notin votes
    <2>0. desk' = [desk EXCEPT ![d] = x]
        BY <1>1, <1>4
    <2>1. ASSUME NEW q \in Asks \ cleared', Exists(q)' PROVE Tally(q)'
        <3>1. /\ ask[q].n \in Nat /\ Cardinality(VotesOf(q)) \in Nat /\ Cardinality(VotesOf(q)') \in Nat
              /\ Cardinality(Counting(q)) \in Nat /\ Cardinality(Owning(q)) \in Nat
            BY <1>2, <2>0, TallyNumbers
        <3>2. d \notin Counting(q) /\ d \notin Owning(q)
            BY <1>0 DEF Counting, Owning
        <3>3. Cardinality(Counting(q)') = Cardinality(Counting(q)) + (IF q = r THEN 1 ELSE 0)
            <4>1. Cardinality(Counting(q)') =
                    Cardinality(Counting(q)) + (IF x.pc = "count" /\ x.row = q THEN 1 ELSE 0)
                                             - (IF d \in Counting(q) THEN 1 ELSE 0)
                BY <1>2, <2>0, TallyNumbers
            <4>. QED  BY <1>2, <3>1, <3>2, <4>1
        <3>4. Cardinality(Owning(q)') = Cardinality(Owning(q))
            <4>1. Cardinality(Owning(q)') =
                    Cardinality(Owning(q)) + (IF x.pc = "own" /\ x.row = q THEN 1 ELSE 0)
                                           - (IF d \in Owning(q) THEN 1 ELSE 0)
                BY <1>2, <2>0, TallyNumbers
            <4>. QED  BY <1>2, <3>1, <3>2, <4>1
        <3>5. Exists(q) /\ q \in Asks \ cleared /\ ask'[q].n = ask[q].n
            BY <1>1, <2>1 DEF Exists
        <3>6. Tally(q)
            BY <3>5 DEF VotesCounted, Tally, VotesOf, Counting, Owning
        <3>7. Cardinality(VotesOf(q)') = Cardinality(VotesOf(q)) + (IF q = r THEN 1 ELSE 0)
            <4>1. CASE q = r
                <5>1. VotesOf(q)' = VotesOf(q) \cup {y} /\ y \notin VotesOf(q)
                    BY <1>1, <1>2, <1>4, <4>1 DEF VotesOf
                <5>2. IsFiniteSet(VotesOf(q))
                    BY FS_Subset DEF VotesOf, BoardBase, RowsFine
                <5>. QED  BY <4>1, <5>1, <5>2, FS_AddElement
            <4>2. CASE q # r
                <5>1. VotesOf(q)' = VotesOf(q)
                    BY <1>1, <1>2, <4>2 DEF VotesOf
                <5>. QED  BY <3>1, <4>2, <5>1
            <4>. QED  BY <4>1, <4>2
        <3>8. CASE q = r
            BY <1>1, <3>1, <3>3, <3>4, <3>5, <3>6, <3>7, <3>8 DEF Tally
        <3>9. CASE q # r
            BY <1>1, <3>1, <3>3, <3>4, <3>5, <3>6, <3>7, <3>9 DEF Tally
        <3>. QED  BY <3>8, <3>9
    <2>. QED  BY <2>1 DEF VotesCounted, Tally, VotesOf, Counting, Owning
<1>. QED  BY <1>3, <1>4

\* A vote is counted: it was one to count.
LEMMA TallyCounts ==
    ASSUME BoardBase, BoardBase', VotesCounted, NEW d \in Desks, CountVote(d)
    PROVE  VotesCounted'
<1>. DEFINE r == desk[d].row
<1>0. /\ desk \in [Desks -> DeskType] /\ desk[d] \in DeskType /\ NoDesk \in DeskType /\ NoDesk.pc = "idle"
      /\ ask \in [Asks -> AskType] /\ \A q \in Asks : ask[q].n \in Nat
    BY DEF BoardBase, DesksFine, RowsFine, NoDesk, DeskType, AskType
<1>1. /\ desk[d].pc = "count" /\ desk' = [desk EXCEPT ![d] = NoDesk] /\ UNCHANGED <<votes, twice, cleared>>
      /\ ask' = [ask EXCEPT ![r].n = IF Exists(r) THEN @ + 1 ELSE @] \/ ask' = ask
    BY DEF CountVote, Rise
<1>2. \A q \in Asks : /\ ask'[q].game = ask[q].game
                      /\ ask'[q].n = ask[q].n \/ (q = r /\ ask'[q].n = ask[q].n + 1)
    BY <1>0, <1>1 DEF AskType
<1>. HIDE DEF r
<1>3. ASSUME NEW q \in Asks \ cleared', Exists(q)' PROVE Tally(q)'
    <2>1. /\ ask[q].n \in Nat /\ Cardinality(VotesOf(q)) \in Nat
          /\ Cardinality(Counting(q)) \in Nat /\ Cardinality(Owning(q)) \in Nat
        BY <1>0, <1>1, TallyNumbers
    <2>2. d \notin Owning(q) /\ (d \in Counting(q) <=> q = r)
        BY <1>1 DEF Counting, Owning, r
    <2>3. Cardinality(Counting(q)') = Cardinality(Counting(q)) - (IF q = r THEN 1 ELSE 0)
        <3>1. Cardinality(Counting(q)') =
                Cardinality(Counting(q)) + (IF NoDesk.pc = "count" /\ NoDesk.row = q THEN 1 ELSE 0)
                                         - (IF d \in Counting(q) THEN 1 ELSE 0)
            BY <1>0, <1>1, TallyNumbers
        <3>. QED  BY <1>0, <2>1, <2>2, <3>1
    <2>4. Cardinality(Owning(q)') = Cardinality(Owning(q))
        <3>1. Cardinality(Owning(q)') =
                Cardinality(Owning(q)) + (IF NoDesk.pc = "own" /\ NoDesk.row = q THEN 1 ELSE 0)
                                       - (IF d \in Owning(q) THEN 1 ELSE 0)
            BY <1>0, <1>1, TallyNumbers
        <3>. QED  BY <1>0, <2>1, <2>2, <3>1
    <2>5. Exists(q) /\ q \in Asks \ cleared /\ VotesOf(q)' = VotesOf(q)
        BY <1>1, <1>2, <1>3 DEF Exists, VotesOf
    <2>6. Tally(q)
        BY <2>5 DEF VotesCounted, Tally, VotesOf, Counting, Owning
    <2>7. ask'[q].n = ask[q].n \/ (q = r /\ ask'[q].n = ask[q].n + 1)
        BY <1>2
    <2>8. CASE q = r
        BY <1>1, <2>1, <2>3, <2>4, <2>5, <2>6, <2>7, <2>8 DEF Tally
    <2>9. CASE q # r
        BY <1>1, <2>1, <2>3, <2>4, <2>5, <2>6, <2>7, <2>9 DEF Tally
    <2>. QED  BY <2>8, <2>9
<1>. QED  BY <1>3 DEF VotesCounted, Tally, VotesOf, Counting, Owning

\* A request never shows more votes than it has voters, counting the requester's whose row
\* is still to be written, and but for the two cases the histories name.
THEOREM VotesAreCounted == BoardSpec => []VotesCounted
<1>1. BoardInit => VotesCounted
    BY DEF BoardInit, VotesCounted, Exists, NoAsk
<1>2. BoardBase /\ BoardBase' /\ VotesCounted /\ [BoardNext]_boardVars => VotesCounted'
    <2>. SUFFICES ASSUME BoardBase, BoardBase', VotesCounted, [BoardNext]_boardVars PROVE VotesCounted'
        OBVIOUS
    <2>1. CASE UNCHANGED boardVars
        BY <2>1 DEF boardVars, VotesCounted, Exists
    <2>2. ASSUME NEW d \in Desks,
                 OwnVote(d) \/ InsertVote(d) \/ CountVote(d) \/ \E r \in Asks : InsertAsk(d, r)
          PROVE  VotesCounted'
        BY <2>2, TallyInserts, TallyOwns, TallyVotes, TallyCounts
    <2>. QED
        BY <2>1, <2>2, TallyElsewhere DEF BoardNext
<1>. QED  BY <1>1, <1>2, BoardInvariance, PTL DEF BoardSpec

-----------------------------------------------------------------------------
(* The catalog *)

ScanType ==
    [pc : {"idle", "walk", "upsert", "prune", "hash", "drop", "enrich"}, todo : SUBSET Titles,
     found : [Titles -> Contents], walked : SUBSET Titles, existing : SUBSET Titles,
     cut : SUBSET Titles, half : SUBSET Titles, hash : [Titles -> Contents]]
FetchType ==
    [pc : {"idle", "load", "segments", "read", "store", "served"}, game : Titles \cup {NoFetch.game},
     ver : Contents, hash : Contents, row : Contents]
ManifestType == [label : Contents, hashed : Contents]

\* What the stage of a scan s says of what it has done: c is the catalog.
ScanPlace(s, c) ==
    /\ s.pc = "walk" => s.walked \cup s.todo = Titles
    /\ s.pc \in {"upsert", "prune", "hash", "drop", "enrich"} => s.walked = Titles
    /\ s.pc = "upsert" => \A g \in Titles : IF s.found[g] # 0 THEN g \in s.todo \/ c[g] = s.found[g]
                                             ELSE g \in s.existing \/ c[g] = 0
    /\ s.pc = "prune" => \A g \in Titles : IF g \in s.todo THEN s.found[g] = 0 ELSE c[g] = s.found[g]
    /\ s.pc \in {"hash", "drop", "enrich"} => \A g \in Titles : c[g] = s.found[g]
    /\ s.pc = "hash" => \A g \in s.todo : s.found[g] # 0
    /\ s.pc \in {"idle", "walk", "upsert", "prune"} => \A g \in Titles : s.hash[g] = 0

\* The content v of game g was on disk once: what is there now is not older.
Known(g, v) == v <= edits /\ (disk[g] = 0 \/ v <= disk[g])

CatalogTypes ==
    /\ disk \in [Titles -> Contents] /\ edits \in Contents
    /\ wake \in BOOLEAN /\ watcher \in {"waiting", "draining"}
    /\ scan \in ScanType
    /\ cat \in [Titles -> Contents]
    /\ man \in [Titles -> ManifestType]
    /\ fetch \in [Fetches -> FetchType]
    /\ excused \subseteq Titles /\ lost \subseteq Titles

CatalogBase ==
    /\ CatalogTypes
    /\ ScanPlace(scan, cat)
    /\ \A g \in Titles : disk[g] <= edits /\ Known(g, man[g].label)
                           /\ Known(g, cat[g]) /\ Known(g, scan.found[g])
    /\ \A f \in Fetches : fetch[f].pc # "idle" =>
           /\ fetch[f].game \in Titles /\ fetch[f].ver # 0
           /\ Known(fetch[f].game, fetch[f].ver) /\ Known(fetch[f].game, fetch[f].row)

\* A scan that is not running, and one that has just started.
LEMMA ScanStarts ==
    /\ NoScan \in ScanType /\ NoScan.pc = "idle"
    /\ FreshScan \in ScanType /\ FreshScan.pc = "walk" /\ FreshScan.todo = Titles /\ FreshScan.walked = {}
    /\ \A c : ScanPlace(NoScan, c) /\ ScanPlace(FreshScan, c)
    /\ \A g \in Titles : NoScan.found[g] = 0 /\ FreshScan.found[g] = 0
<1>1. NoScan \in ScanType
    BY CatalogConstants DEF NoScan, ScanType, Contents
<1>2. FreshScan \in ScanType
    <2>. FreshScan = [NoScan EXCEPT !.pc = "walk", !.todo = Titles]
        BY DEF FreshScan
    <2>. HIDE DEF NoScan
    <2>. QED  BY <1>1 DEF ScanType
<1>3. /\ NoScan.pc = "idle" /\ FreshScan.pc = "walk" /\ FreshScan.todo = Titles /\ FreshScan.walked = {}
      /\ \A g \in Titles : NoScan.found[g] = 0 /\ FreshScan.found[g] = 0
                             /\ NoScan.hash[g] = 0 /\ FreshScan.hash[g] = 0
    BY DEF FreshScan, NoScan
<1>4. \A c : ScanPlace(NoScan, c) /\ ScanPlace(FreshScan, c)
    BY <1>3 DEF ScanPlace
<1>. QED  BY <1>1, <1>2, <1>3, <1>4

\* Nothing is known of a game that is not there.
LEMMA NothingKnown ==
    ASSUME CatalogTypes, NEW g \in Titles
    PROVE  Known(g, 0) /\ Known(g, disk[g]) = (disk[g] <= edits)
<1>1. edits \in Nat /\ disk[g] \in Nat
    BY CatalogConstants DEF CatalogTypes, Contents
<1>. QED  BY <1>1 DEF Known

\* A change on disk: the new content is newer than all that was.
LEMMA CatalogDisk ==
    ASSUME CatalogBase, NEW g \in Titles, NEW removed \in BOOLEAN, DiskChange(g, removed)
    PROVE  CatalogBase' /\ (\A q \in Titles, v \in Contents : Known(q, v) /\ v # 0 =>
                               Known(q, v)' /\ (q = g => v # disk'[q]) /\ (q # g => disk'[q] = disk[q]))
<1>0. edits \in Nat /\ MaxEdits \in Nat /\ edits + 1 \in Contents /\ disk \in [Titles -> Contents]
    BY CatalogConstants DEF DiskChange, CatalogBase, CatalogTypes, Contents
<1>1. /\ edits' = edits + 1
      /\ UNCHANGED <<watcher, scan, cat, man, fetch, lost>>
      /\ disk'[g] \in {0, edits + 1} /\ \A q \in Titles \ {g} : disk'[q] = disk[q]
      /\ disk' \in [Titles -> Contents] /\ wake' \in BOOLEAN /\ excused' \subseteq Titles
    <2>1. /\ edits' = edits + 1 /\ disk' = [disk EXCEPT ![g] = IF removed THEN 0 ELSE edits + 1]
          /\ UNCHANGED <<watcher, scan, cat, man, fetch, lost>>
        BY DEF DiskChange
    <2>2. wake' \in BOOLEAN /\ excused' \subseteq Titles
        BY DEF DiskChange, CatalogBase, CatalogTypes
    <2>. QED  BY <2>1, <2>2, <1>0, CatalogConstants DEF Contents
<1>2. \A q \in Titles, v \in Contents : Known(q, v) => Known(q, v)'
    BY <1>0, <1>1 DEF Known, Contents
<1>3. \A q \in Titles, v \in Contents : Known(q, v) /\ v # 0 => (q = g => v # disk'[q])
    BY <1>0, <1>1 DEF Known, Contents
<1>4. CatalogTypes'
    BY <1>0, <1>1 DEF CatalogBase, CatalogTypes
<1>5. \A q \in Titles : disk[q] <= edits => disk'[q] <= edits'
    BY <1>0, <1>1 DEF Contents
<1>6. \A q \in Titles : Known(q, man[q].label)'
    BY <1>1, <1>2 DEF CatalogBase, CatalogTypes, ManifestType
<1>7. \A q \in Titles : Known(q, cat[q])' /\ Known(q, scan.found[q])'
    BY <1>1, <1>2 DEF CatalogBase, CatalogTypes, ScanType
<1>8. \A f \in Fetches : fetch[f].pc # "idle" =>
          Known(fetch[f].game, fetch[f].ver)' /\ Known(fetch[f].game, fetch[f].row)'
    BY <1>1, <1>2 DEF CatalogBase, CatalogTypes, FetchType
<1>. QED  BY <1>1, <1>2, <1>3, <1>4, <1>5, <1>6, <1>7, <1>8 DEF CatalogBase

\* A step after which the scan goes on, stops or starts anew, and the requests go on or
\* are forgotten.
LEMMA CatalogRests ==
    ASSUME CatalogBase, UNCHANGED <<disk, edits, cat, man>>, scan' \in {scan, FreshScan, NoScan},
           fetch' = fetch \/ fetch' = [f \in Fetches |-> NoFetch],
           wake' \in BOOLEAN, watcher' \in {"waiting", "draining"},
           excused' \subseteq Titles, lost' \subseteq Titles
    PROVE  CatalogBase'
<1>1. scan' \in ScanType /\ ScanPlace(scan', cat') /\ \A g \in Titles : scan'.found[g] \in {0, scan.found[g]}
    BY ScanStarts DEF CatalogBase, CatalogTypes
<1>2. \A g \in Titles : Known(g, scan.found[g])'
    <2>1. \A g \in Titles : Known(g, 0) /\ Known(g, scan.found[g])
        BY NothingKnown DEF CatalogBase
    <2>2. \A g, v : Known(g, v)' = Known(g, v)
        BY DEF Known
    <2>. QED  BY <1>1, <2>1, <2>2
<1>3. NoFetch \in FetchType /\ NoFetch.pc = "idle"
    BY CatalogConstants DEF NoFetch, FetchType, Contents
<1>4. fetch' \in [Fetches -> FetchType]
    BY <1>3 DEF CatalogBase, CatalogTypes
<1>5. \A f \in Fetches : fetch'[f].pc # "idle" =>
          /\ fetch'[f].game \in Titles /\ fetch'[f].ver # 0
          /\ Known(fetch[f].game, fetch[f].ver)' /\ Known(fetch[f].game, fetch[f].row)'
    <2>1. \A f \in Fetches : fetch'[f] = fetch[f] \/ fetch'[f].pc = "idle"
        BY <1>3
    <2>. QED  BY <2>1 DEF CatalogBase, Known
<1>6. \A g \in Titles : disk'[g] <= edits' /\ Known(g, man[g].label)' /\ Known(g, cat[g])'
    BY DEF CatalogBase, Known
<1>7. CatalogTypes'
    BY <1>1, <1>4 DEF CatalogBase, CatalogTypes
<1>. QED  BY <1>1, <1>2, <1>5, <1>6, <1>7 DEF CatalogBase

\* A step of the scan, which leaves the library and the requests alone.
LEMMA CatalogScans ==
    ASSUME CatalogBase, UNCHANGED Rest, excused' \subseteq Titles, lost' \subseteq Titles,
           scan' \in ScanType, cat' \in [Titles -> Contents], man' \in [Titles -> ManifestType],
           ScanPlace(scan', cat'),
           \A g \in Titles : Known(g, man'[g].label) /\ Known(g, cat'[g]) /\ Known(g, scan'.found[g])
    PROVE  CatalogBase'
<1>1. CatalogTypes'
    BY DEF CatalogBase, CatalogTypes, Rest
<1>2. \A g \in Titles, v \in Contents : Known(g, v)' = Known(g, v)
    BY DEF Known, Rest
<1>. QED  BY <1>1, <1>2 DEF CatalogBase, CatalogTypes, Rest, ScanType, FetchType, ManifestType

\* The walk of the library.
LEMMA CatalogWalks ==
    ASSUME CatalogBase, NEW g \in Titles, WalkGame(g) \/ WalkError(g) \/ WalkStops(g)
    PROVE  CatalogBase'
<1>0. scan \in ScanType /\ disk[g] \in Contents /\ Known(g, disk[g])
    BY NothingKnown DEF CatalogBase, CatalogTypes
<1>1. ASSUME scan' = NoScan, UNCHANGED <<Rest, cat, man, lost>>, excused' \subseteq Titles
      PROVE  CatalogBase'
    BY <1>1, CatalogRests DEF CatalogBase, CatalogTypes, Rest
<1>2. ASSUME scan' \in ScanType, scan.pc = "walk", scan'.pc = "walk", scan'.hash = scan.hash,
             scan'.walked \cup scan'.todo = scan.walked \cup scan.todo,
             \A q \in Titles : scan'.found[q] = scan.found[q] \/ (q = g /\ scan'.found[q] = disk[q]),
             UNCHANGED <<Rest, cat, man, lost>>, excused' \subseteq Titles
      PROVE  CatalogBase'
    <2>1. ScanPlace(scan', cat')
        BY <1>2 DEF CatalogBase, ScanPlace
    <2>2. \A q \in Titles : Known(q, man'[q].label) /\ Known(q, cat'[q]) /\ Known(q, scan'.found[q])
        BY <1>0, <1>2 DEF CatalogBase
    <2>. QED  BY <1>2, <2>1, <2>2, CatalogScans DEF CatalogBase, CatalogTypes
<1>3. /\ excused' \subseteq Titles /\ UNCHANGED <<Rest, cat, man, lost>>
      /\ scan.todo \subseteq Titles /\ scan.found \in [Titles -> Contents]
    BY <1>0 DEF WalkGame, WalkError, WalkStops, FailScan, CatalogBase, CatalogTypes, ScanType
<1>4. CASE WalkGame(g)
    <2>. DEFINE found == [scan.found EXCEPT ![g] = disk[g]]
    <2>0. found \in [Titles -> Contents]
        BY <1>0, <1>3
    <2>1. \A q \in Titles : found[q] = scan.found[q] \/ (q = g /\ found[q] = disk[q])
        BY <1>3
    <2>2. scan' = Walked(found, {g}) /\ scan.pc = "walk" /\ g \in scan.todo
        BY <1>4 DEF WalkGame, Reached
    <2>. HIDE DEF found
    <2>3. /\ scan' \in ScanType /\ scan'.pc = "walk" /\ scan'.hash = scan.hash /\ scan'.found = found
          /\ scan'.walked \cup scan'.todo = scan.walked \cup scan.todo
        BY <1>0, <2>0, <2>2 DEF Walked, ScanType
    <2>. QED  BY <1>2, <1>3, <2>1, <2>2, <2>3
<1>5. CASE WalkError(g)
    <2>1. scan' = NoScan \/ (scan' = Walked(scan.found, {g}) /\ g \in scan.todo)
        BY <1>5 DEF WalkError, Reached, FailScan
    <2>2. scan.pc = "walk"
        BY <1>5 DEF WalkError
    <2>3. CASE scan' = NoScan
        BY <2>3, <1>1, <1>3
    <2>4. CASE scan' = Walked(scan.found, {g}) /\ g \in scan.todo
        <3>1. /\ scan' \in ScanType /\ scan'.pc = "walk" /\ scan'.hash = scan.hash /\ scan'.found = scan.found
              /\ scan'.walked \cup scan'.todo = scan.walked \cup scan.todo
            BY <1>0, <2>2, <2>4 DEF Walked, ScanType
        <3>2. \A q \in Titles : scan'.found[q] = scan.found[q] \/ (q = g /\ scan'.found[q] = disk[q])
            BY <3>1
        <3>. QED  BY <1>2, <1>3, <2>2, <3>1, <3>2
    <2>. QED  BY <2>1, <2>3, <2>4
<1>6. CASE WalkStops(g)
    <2>1. scan' = [Walked(scan.found, scan.todo) EXCEPT !.cut = scan.todo \ {g}] /\ scan.pc = "walk"
        BY <1>6 DEF WalkStops
    <2>2. /\ scan' \in ScanType /\ scan'.pc = "walk" /\ scan'.hash = scan.hash /\ scan'.found = scan.found
          /\ scan'.walked \cup scan'.todo = scan.walked \cup scan.todo
        BY <1>0, <2>1 DEF Walked, ScanType
    <2>3. \A q \in Titles : scan'.found[q] = scan.found[q] \/ (q = g /\ scan'.found[q] = disk[q])
        BY <2>2
    <2>. QED  BY <1>2, <1>3, <2>1, <2>2, <2>3
<1>. QED  BY <1>4, <1>5, <1>6

\* The scan moves to the next stage.
LEMMA CatalogStages ==
    ASSUME CatalogBase, ListExisting \/ StartPrune \/ StartHash \/ ListManifests \/ ManifestsEnsured
    PROVE  CatalogBase'
<1>0. /\ scan \in ScanType /\ Found \subseteq Titles /\ {g \in Titles : cat[g] # 0} \subseteq Titles
      /\ cat \in [Titles -> Contents] /\ man \in [Titles -> ManifestType]
      /\ scan.found \in [Titles -> Contents]
    BY DEF CatalogBase, CatalogTypes, Found, ScanType
<1>1. UNCHANGED <<Rest, cat, man, excused, lost>>
    BY DEF ListExisting, StartPrune, StartHash, ListManifests, ManifestsEnsured
<1>3. ASSUME scan' \in ScanType, scan'.found = scan.found, ScanPlace(scan', cat)
      PROVE  CatalogBase'
    <2>1. \A q \in Titles : Known(q, man'[q].label) /\ Known(q, cat'[q]) /\ Known(q, scan'.found[q])
        BY <1>1, <1>3 DEF CatalogBase
    <2>. QED  BY <1>0, <1>1, <1>3, <2>1, CatalogScans DEF CatalogBase, CatalogTypes
<1>4. CASE ListExisting
    <2>1. /\ scan' \in ScanType /\ scan'.pc = "upsert" /\ scan'.todo = Found /\ scan'.found = scan.found
          /\ scan'.walked = scan.walked /\ scan'.existing = {g \in Titles : cat[g] # 0} /\ scan'.hash = scan.hash
        BY <1>0, <1>4 DEF ListExisting, Stage, ScanType
    <2>2. ScanPlace(scan', cat)
        BY <1>4, <2>1 DEF ListExisting, CatalogBase, ScanPlace, Found
    <2>. QED  BY <1>3, <2>1, <2>2
<1>5. CASE StartPrune
    <2>1. /\ scan' \in ScanType /\ scan'.pc = "prune" /\ scan'.todo = scan.existing \ Found
          /\ scan'.found = scan.found /\ scan'.walked = scan.walked /\ scan'.hash = scan.hash
        BY <1>0, <1>5 DEF StartPrune, Stage, ScanType
    <2>2. ScanPlace(scan', cat)
        BY <1>5, <2>1 DEF StartPrune, CatalogBase, ScanPlace, Found
    <2>. QED  BY <1>3, <2>1, <2>2
<1>6. CASE StartHash
    <2>1. /\ scan' \in ScanType /\ scan'.pc = "hash" /\ scan'.todo = Found /\ scan'.found = scan.found
          /\ scan'.walked = scan.walked
        BY <1>0, <1>6 DEF StartHash, Stage, ScanType
    <2>2. ScanPlace(scan', cat)
        BY <1>6, <2>1 DEF StartHash, CatalogBase, ScanPlace, Found
    <2>. QED  BY <1>3, <2>1, <2>2
<1>7. CASE ListManifests
    <2>1. {g \in Titles : man[g].label # 0} \ Found \subseteq Titles
        OBVIOUS
    <2>2. /\ scan' \in ScanType /\ scan'.pc = "drop" /\ scan'.found = scan.found
          /\ scan'.walked = scan.walked
        BY <1>0, <1>7, <2>1 DEF ListManifests, Stage, ScanType
    <2>3. ScanPlace(scan', cat)
        BY <1>7, <2>2 DEF ListManifests, CatalogBase, ScanPlace
    <2>. QED  BY <1>3, <2>2, <2>3
<1>8. CASE ManifestsEnsured
    <2>1. /\ scan' \in ScanType /\ scan'.pc = "enrich" /\ scan'.found = scan.found
          /\ scan'.walked = scan.walked
        BY <1>0, <1>8 DEF ManifestsEnsured, Stage, ScanType
    <2>2. ScanPlace(scan', cat)
        BY <1>8, <2>1 DEF ManifestsEnsured, CatalogBase, ScanPlace
    <2>. QED  BY <1>3, <2>1, <2>2
<1>. QED  BY <1>4, <1>5, <1>6, <1>7, <1>8

\* One of the two deletes of a manifest whose game is gone.
LEMMA CatalogDrops ==
    ASSUME CatalogBase, NEW g \in Titles, DropRow(g) \/ DropSegments(g)
    PROVE  /\ CatalogBase' /\ UNCHANGED <<Rest, cat, excused, lost>>
           /\ scan.pc = "drop" /\ scan'.pc = "drop" /\ scan'.found = scan.found
           /\ scan'.walked = scan.walked /\ scan'.hash = scan.hash
           /\ \A q \in Titles : man'[q] = man[q] \/ 0 \in {man'[q].label, man'[q].hashed}
<1>0. /\ scan \in ScanType /\ man \in [Titles -> ManifestType] /\ cat \in [Titles -> Contents]
      /\ man[g] \in ManifestType /\ 0 \in Contents
    BY CatalogConstants DEF CatalogBase, CatalogTypes, Contents
<1>1. UNCHANGED <<Rest, cat, excused, lost>> /\ scan.pc = "drop"
    BY DEF DropRow, DropSegments
<1>2. /\ scan' \in ScanType /\ scan'.pc = "drop" /\ scan'.found = scan.found
      /\ scan'.walked = scan.walked /\ scan'.hash = scan.hash
    <2>1. CASE DropRow(g)
        <3>1. scan' = [scan EXCEPT !.half = {g}]
            BY <2>1 DEF DropRow
        <3>. QED  BY <3>1, <1>0, <1>1 DEF ScanType
    <2>2. CASE DropSegments(g)
        <3>1. scan' = [Stage("drop", scan.todo \ {g}) EXCEPT !.half = {}]
            BY <2>2 DEF DropSegments
        <3>. QED  BY <3>1, <1>0, <1>1 DEF Stage, ScanType
    <2>. QED  BY <2>1, <2>2
<1>3. PICK m : /\ man' = [man EXCEPT ![g] = m]
               /\ \/ m = [man[g] EXCEPT !.label = 0]
                  \/ m = [man[g] EXCEPT !.hashed = 0]
    BY <1>0 DEF DropRow, DropSegments
<1>4. m \in ManifestType /\ m.label \in {0, man[g].label} /\ 0 \in {m.label, m.hashed}
    BY <1>0, <1>3 DEF ManifestType
<1>5. man' \in [Titles -> ManifestType] /\ man'[g] = m /\ \A q \in Titles \ {g} : man'[q] = man[q]
    BY <1>0, <1>3, <1>4
<1>6. \A q \in Titles : Known(q, man'[q].label) /\ Known(q, cat'[q]) /\ Known(q, scan'.found[q])
    <2>1. Known(g, 0) /\ Known(g, man[g].label)
        BY NothingKnown DEF CatalogBase
    <2>. QED  BY <1>1, <1>2, <1>4, <1>5, <2>1 DEF CatalogBase
<1>7. ScanPlace(scan', cat')
    BY <1>1, <1>2 DEF CatalogBase, ScanPlace
<1>8. CatalogBase'
    BY <1>0, <1>1, <1>2, <1>5, <1>6, <1>7, CatalogScans DEF CatalogBase, CatalogTypes
<1>. QED  BY <1>1, <1>2, <1>4, <1>5, <1>8

\* A row of games is written or deleted.
LEMMA CatalogRows ==
    ASSUME CatalogBase, NEW g \in Titles, UpsertGame(g) \/ PruneGame(g)
    PROVE  CatalogBase'
<1>0. scan \in ScanType /\ cat \in [Titles -> Contents] /\ scan.found \in [Titles -> Contents]
    BY DEF CatalogBase, CatalogTypes, ScanType
<1>1. scan.pc \in {"upsert", "prune"} /\ scan' = Stage(scan.pc, scan.todo \ {g}) /\ g \in scan.todo
    BY DEF UpsertGame, PruneGame
<1>2. /\ scan' \in ScanType /\ scan'.pc = scan.pc /\ scan'.todo = scan.todo \ {g} /\ scan'.found = scan.found
      /\ scan'.walked = scan.walked /\ scan'.existing = scan.existing /\ scan'.hash = scan.hash
    BY <1>0, <1>1 DEF Stage, ScanType
<1>3. scan.pc = "prune" => scan.found[g] = 0
    BY <1>1 DEF CatalogBase, ScanPlace
<1>4. cat' = [cat EXCEPT ![g] = scan.found[g]]
    BY <1>3 DEF UpsertGame, PruneGame
<1>5. cat' \in [Titles -> Contents] /\ cat'[g] = scan.found[g] /\ \A q \in Titles \ {g} : cat'[q] = cat[q]
    BY <1>0, <1>4
<1>6. ScanPlace(scan', cat')
    <2>1. ASSUME scan.pc = "upsert", NEW q \in Titles
          PROVE  IF scan'.found[q] # 0 THEN q \in scan'.todo \/ cat'[q] = scan'.found[q]
                 ELSE q \in scan'.existing \/ cat'[q] = 0
        BY <2>1, <1>2, <1>5 DEF CatalogBase, ScanPlace
    <2>2. ASSUME scan.pc = "prune", NEW q \in Titles
          PROVE  IF q \in scan'.todo THEN scan'.found[q] = 0 ELSE cat'[q] = scan'.found[q]
        BY <2>2, <1>2, <1>5 DEF CatalogBase, ScanPlace
    <2>. QED  BY ZenonT(40), <2>1, <2>2, <1>1, <1>2 DEF CatalogBase, ScanPlace
<1>7. \A q \in Titles : Known(q, man[q].label) /\ Known(q, cat'[q]) /\ Known(q, scan'.found[q])
    BY <1>2, <1>5 DEF CatalogBase
<1>8. UNCHANGED <<Rest, man, excused>> /\ lost' \subseteq Titles
    BY DEF UpsertGame, PruneGame, CatalogBase, CatalogTypes
<1>. QED  BY <1>2, <1>5, <1>6, <1>7, <1>8, CatalogScans DEF CatalogBase, CatalogTypes

\* A game is hashed for the scan.
LEMMA CatalogHashes ==
    ASSUME CatalogBase, NEW g \in Titles, HashGame(g) \/ StoreHash(g)
    PROVE  /\ CatalogBase' /\ scan'.found = scan.found /\ scan'.walked = scan.walked /\ scan.pc = "hash"
           /\ scan'.pc = scan.pc /\ UNCHANGED <<Rest, cat, excused, lost>>
           /\ \A q \in Titles \ {g} : scan'.hash[q] = scan.hash[q]
           /\ HashGame(g) /\ scan'.hash[g] # 0 => scan'.hash[g] = disk[g] /\ scan.found[g] # 0
           /\ StoreHash(g) => scan'.hash[g] = 0
<1>0. /\ scan \in ScanType /\ scan.found \in [Titles -> Contents] /\ scan.hash \in [Titles -> Contents]
      /\ disk \in [Titles -> Contents] /\ man \in [Titles -> ManifestType] /\ 0 \in Contents
    BY CatalogConstants DEF CatalogBase, CatalogTypes, ScanType, Contents
<1>1. UNCHANGED <<Rest, cat, excused, lost>> /\ scan.pc = "hash" /\ g \in scan.todo
    BY DEF HashGame, StoreHash
<1>2. scan.found[g] # 0 /\ Known(g, scan.found[g])
    BY <1>1 DEF CatalogBase, ScanPlace
<1>3. ASSUME NEW todo \in SUBSET scan.todo, NEW v \in Contents,
             scan' = [scan EXCEPT !.todo = todo, !.hash[g] = v]
      PROVE  /\ scan' \in ScanType /\ scan'.pc = "hash" /\ scan'.todo \subseteq scan.todo /\ scan'.found = scan.found
             /\ scan'.walked = scan.walked /\ scan'.hash[g] = v
             /\ \A q \in Titles \ {g} : scan'.hash[q] = scan.hash[q]
    <2>. DEFINE hash == [scan.hash EXCEPT ![g] = v]
    <2>1. hash \in [Titles -> Contents] /\ hash[g] = v /\ \A q \in Titles \ {g} : hash[q] = scan.hash[q]
        BY <1>0
    <2>2. scan' = [scan EXCEPT !.todo = todo, !.hash = hash]
        BY <1>3, <1>0 DEF ScanType
    <2>. HIDE DEF hash
    <2>. QED  BY <1>0, <1>1, <2>1, <2>2 DEF ScanType
<1>4. \E todo \in SUBSET scan.todo, v \in Contents :
          /\ scan' = [scan EXCEPT !.todo = todo, !.hash[g] = v]
          /\ HashGame(g) /\ v # 0 => v = disk[g]
          /\ StoreHash(g) => v = 0
    <2>1. CASE HashGame(g)
        <3>1. ~StoreHash(g)
            BY <2>1 DEF HashGame, StoreHash
        <3>2. CASE scan' = Stage("hash", scan.todo \ {g})
            <4>0. scan.hash[g] = 0
                BY <2>1 DEF HashGame
            <4>1. scan' = [scan EXCEPT !.todo = scan.todo \ {g}, !.hash[g] = 0]
                BY ZenonT(40), <3>2, <4>0, <1>0, <1>1 DEF Stage, ScanType
            <4>. QED  BY <4>1, <3>1, <1>0
        <3>3. CASE scan' = [scan EXCEPT !.hash[g] = disk[g]]
            <4>1. scan' = [scan EXCEPT !.todo = scan.todo, !.hash[g] = disk[g]]
                BY <3>3, <1>0 DEF ScanType
            <4>. QED  BY <4>1, <3>1, <1>0
        <3>4. scan' = Stage("hash", scan.todo \ {g}) \/ scan' = [scan EXCEPT !.hash[g] = disk[g]]
            BY <2>1 DEF HashGame
        <3>. QED  BY <3>2, <3>3, <3>4
    <2>2. CASE StoreHash(g)
        <3>1. ~HashGame(g)
            BY <2>2 DEF HashGame, StoreHash
        <3>2. scan' = [scan EXCEPT !.todo = scan.todo \ {g}, !.hash[g] = 0]
            BY <2>2, <1>0, <1>1 DEF Stage, StoreHash, ScanType
        <3>. QED  BY <3>1, <3>2, <1>0
    <2>. QED  BY <2>1, <2>2
<1>5. /\ scan' \in ScanType /\ scan'.pc = "hash" /\ scan'.todo \subseteq scan.todo /\ scan'.found = scan.found
      /\ scan'.walked = scan.walked /\ \A q \in Titles \ {g} : scan'.hash[q] = scan.hash[q]
      /\ HashGame(g) /\ scan'.hash[g] # 0 => scan'.hash[g] = disk[g]
      /\ StoreHash(g) => scan'.hash[g] = 0
    BY <1>3, <1>4
<1>6. ScanPlace(scan', cat')
    BY <1>1, <1>5 DEF CatalogBase, ScanPlace
<1>7. man' \in [Titles -> ManifestType] /\ \A q \in Titles : Known(q, man'[q].label)
    <2>1. man' = man \/ man' = [man EXCEPT ![g] = [label |-> scan.found[g], hashed |-> scan.hash[g]]]
        BY DEF HashGame, StoreHash, store_manifest
    <2>2. [label |-> scan.found[g], hashed |-> scan.hash[g]] \in ManifestType
        BY <1>0 DEF ManifestType
    <2>3. \A q \in Titles : man'[q].label = man[q].label \/ (q = g /\ man'[q].label = scan.found[g])
        BY <2>1, <1>0
    <2>. QED  BY <2>1, <2>2, <2>3, <1>0, <1>2 DEF CatalogBase
<1>8. \A q \in Titles : Known(q, cat'[q]) /\ Known(q, scan'.found[q])
    BY <1>1, <1>5 DEF CatalogBase
<1>9. CatalogBase'
    BY <1>1, <1>5, <1>6, <1>7, <1>8, CatalogScans DEF CatalogBase, CatalogTypes
<1>. QED  BY <1>1, <1>2, <1>5, <1>9

\* A step of a manifest request.
Fetching(f) ==
    \/ \E g \in Titles : FetchManifest(f, g)
    \/ LoadRow(f) \/ LoadSegments(f) \/ HashOnDemand(f) \/ StoreOnDemand(f)

\* What a request y holds after a step of it: one just asked, one that goes on with what
\* it has, hashes as they are filed or on disk, or nothing.
FetchStep(x, y) ==
    \/ y = NoFetch
    \/ \E g \in Titles : cat[g] # 0 /\ y = [NoFetch EXCEPT !.pc = "load", !.game = g, !.ver = cat[g]]
    \/ x.pc # "idle" /\ y \in {[x EXCEPT !.pc = "segments"], [x EXCEPT !.pc = "read"]}
    \/ /\ x.pc = "segments" /\ man[x.game].hashed # 0
       /\ y = [x EXCEPT !.pc = "served", !.hash = man[x.game].hashed, !.row = man[x.game].label]
    \/ /\ x.pc = "read" /\ disk[x.game] # 0
       /\ y = [x EXCEPT !.pc = "store", !.hash = disk[x.game]]
    \/ x.pc = "store" /\ y = [x EXCEPT !.pc = "served", !.row = x.ver]

LEMMA CatalogFetches ==
    ASSUME CatalogBase, NEW f \in Fetches, Fetching(f)
    PROVE  /\ CatalogBase' /\ UNCHANGED Asked
           /\ \A d \in Fetches \ {f} : fetch'[d] = fetch[d]
           /\ FetchStep(fetch[f], fetch'[f])
           /\ man' = man \/ (fetch[f].pc = "store" /\ fetch[f].game \in Titles /\ fetch[f].ver # 0 /\
                  man' = [man EXCEPT ![fetch[f].game] = [label |-> fetch[f].ver, hashed |-> fetch[f].hash]])
<1>0. /\ fetch \in [Fetches -> FetchType] /\ man \in [Titles -> ManifestType] /\ cat \in [Titles -> Contents]
      /\ disk \in [Titles -> Contents] /\ 0 \in Contents /\ fetch[f] \in FetchType
    BY CatalogConstants DEF CatalogBase, CatalogTypes, Contents
<1>1. UNCHANGED Asked
    BY DEF Fetching, FetchManifest, LoadRow, LoadSegments, HashOnDemand, StoreOnDemand, Filed
<1>2. NoFetch \in FetchType /\ NoFetch.pc = "idle" /\ NoFetch.row = 0
    BY <1>0 DEF NoFetch, FetchType
<1>3. PICK x : fetch' = [fetch EXCEPT ![f] = x] /\ FetchStep(fetch[f], x)
    <2>1. ASSUME NEW g \in Titles, FetchManifest(f, g)
          PROVE  cat[g] # 0 /\ fetch' = [fetch EXCEPT ![f] = [NoFetch EXCEPT !.pc = "load", !.game = g, !.ver = cat[g]]]
        BY <2>1 DEF FetchManifest
    <2>2. LoadRow(f) => /\ fetch[f].pc = "load"
                        /\ \/ fetch' = [fetch EXCEPT ![f] = [fetch[f] EXCEPT !.pc = "segments"]]
                           \/ fetch' = [fetch EXCEPT ![f] = [fetch[f] EXCEPT !.pc = "read"]]
        BY <1>0 DEF LoadRow
    <2>3. ASSUME LoadSegments(f)
          PROVE  /\ fetch[f].pc = "segments"
                 /\ \/ /\ man[fetch[f].game].hashed # 0
                       /\ fetch' = [fetch EXCEPT ![f] = [fetch[f] EXCEPT !.pc = "served",
                                      !.hash = man[fetch[f].game].hashed, !.row = man[fetch[f].game].label]]
                    \/ fetch' = [fetch EXCEPT ![f] = [fetch[f] EXCEPT !.pc = "read"]]
        BY <2>3, <1>0 DEF LoadSegments, FetchType
    <2>4. HashOnDemand(f) =>
              /\ fetch[f].pc = "read"
              /\ \/ fetch' = [fetch EXCEPT ![f] = NoFetch]
                 \/ disk[fetch[f].game] # 0 /\
                    fetch' = [fetch EXCEPT ![f] = [fetch[f] EXCEPT !.pc = "store", !.hash = disk[fetch[f].game]]]
        BY <1>0 DEF HashOnDemand
    <2>5. StoreOnDemand(f) =>
              /\ fetch[f].pc = "store"
              /\ fetch' = [fetch EXCEPT ![f] = [fetch[f] EXCEPT !.pc = "served", !.row = fetch[f].ver]]
        BY <1>0 DEF StoreOnDemand, Filed, FetchType
    <2>. QED  BY <2>1, <2>2, <2>3, <2>4, <2>5 DEF Fetching, FetchStep
<1>4. /\ x \in FetchType
      /\ x.pc # "idle" => x.game \in Titles /\ x.ver # 0 /\ Known(x.game, x.ver) /\ Known(x.game, x.row)
    <2>1. CASE x = NoFetch
        BY <2>1, <1>2
    <2>2. ASSUME NEW g \in Titles, cat[g] # 0, x = [NoFetch EXCEPT !.pc = "load", !.game = g, !.ver = cat[g]]
          PROVE  x \in FetchType /\ x.game \in Titles /\ x.ver # 0 /\ Known(x.game, x.ver) /\ Known(x.game, x.row)
        <3>1. x \in FetchType /\ x.pc = "load" /\ x.game = g /\ x.ver = cat[g] /\ x.row = 0
            BY <2>2, <1>0, <1>2 DEF FetchType
        <3>. QED  BY <2>2, <3>1, NothingKnown DEF CatalogBase
    <2>3. ASSUME fetch[f].pc # "idle", NEW pc \in {"segments", "read", "store", "served"},
                 NEW hash \in Contents, NEW row \in Contents,
                 x = [fetch[f] EXCEPT !.pc = pc, !.hash = hash, !.row = row],
                 Known(fetch[f].game, row)
          PROVE  x \in FetchType /\ x.game \in Titles /\ x.ver # 0 /\ Known(x.game, x.ver) /\ Known(x.game, x.row)
        <3>1. x \in FetchType /\ x.game = fetch[f].game /\ x.ver = fetch[f].ver /\ x.row = row
            BY <2>3, <1>0 DEF FetchType
        <3>. QED  BY <2>3, <3>1 DEF CatalogBase
    <2>4. CASE fetch[f].pc # "idle" /\ x # NoFetch /\
               ~\E g \in Titles : cat[g] # 0 /\ x = [NoFetch EXCEPT !.pc = "load", !.game = g, !.ver = cat[g]]
        <3>1. /\ fetch[f].game \in Titles /\ Known(fetch[f].game, fetch[f].ver) /\ Known(fetch[f].game, fetch[f].row)
              /\ fetch[f].hash \in Contents /\ fetch[f].row \in Contents /\ fetch[f].ver \in Contents
              /\ disk[fetch[f].game] \in Contents /\ man[fetch[f].game] \in ManifestType
              /\ Known(fetch[f].game, man[fetch[f].game].label)
            BY <2>4, <1>0 DEF CatalogBase, FetchType
        <3>2. \E pc \in {"segments", "read", "store", "served"}, hash \in Contents, row \in Contents :
                  /\ x = [fetch[f] EXCEPT !.pc = pc, !.hash = hash, !.row = row]
                  /\ Known(fetch[f].game, row)
            <4>1. CASE x \in {[fetch[f] EXCEPT !.pc = "segments"], [fetch[f] EXCEPT !.pc = "read"]}
                <5>1. \/ x = [fetch[f] EXCEPT !.pc = "segments", !.hash = fetch[f].hash, !.row = fetch[f].row]
                      \/ x = [fetch[f] EXCEPT !.pc = "read", !.hash = fetch[f].hash, !.row = fetch[f].row]
                    BY <4>1, <1>0 DEF FetchType
                <5>. QED  BY <5>1, <3>1
            <4>2. CASE x = [fetch[f] EXCEPT !.pc = "served", !.hash = man[fetch[f].game].hashed,
                                            !.row = man[fetch[f].game].label]
                BY <4>2, <3>1 DEF ManifestType
            <4>3. CASE x = [fetch[f] EXCEPT !.pc = "store", !.hash = disk[fetch[f].game]]
                <5>1. x = [fetch[f] EXCEPT !.pc = "store", !.hash = disk[fetch[f].game], !.row = fetch[f].row]
                    BY <4>3, <1>0 DEF FetchType
                <5>. QED  BY <5>1, <3>1
            <4>4. CASE x = [fetch[f] EXCEPT !.pc = "served", !.row = fetch[f].ver]
                <5>1. x = [fetch[f] EXCEPT !.pc = "served", !.hash = fetch[f].hash, !.row = fetch[f].ver]
                    BY <4>4, <1>0 DEF FetchType
                <5>. QED  BY <5>1, <3>1
            <4>. QED  BY <1>3, <2>4, <4>1, <4>2, <4>3, <4>4 DEF FetchStep
        <3>. QED  BY <2>4, <3>2, <2>3
    <2>. QED  BY <1>3, <2>1, <2>2, <2>4 DEF FetchStep
<1>5. fetch' \in [Fetches -> FetchType] /\ fetch'[f] = x /\ \A d \in Fetches \ {f} : fetch'[d] = fetch[d]
    BY <1>0, <1>3, <1>4
<1>6. man' = man \/ (fetch[f].pc = "store" /\ fetch[f].game \in Titles /\ fetch[f].ver # 0 /\
                  man' = [man EXCEPT ![fetch[f].game] = [label |-> fetch[f].ver, hashed |-> fetch[f].hash]])
    BY DEF Fetching, FetchManifest, LoadRow, LoadSegments, HashOnDemand, StoreOnDemand, Filed, store_manifest, CatalogBase
<1>7. man' \in [Titles -> ManifestType] /\ \A q \in Titles : Known(q, man'[q].label)
    <2>1. CASE man' = man
        BY <2>1, <1>0 DEF CatalogBase
    <2>2. CASE fetch[f].pc = "store" /\ fetch[f].game \in Titles /\
               man' = [man EXCEPT ![fetch[f].game] = [label |-> fetch[f].ver, hashed |-> fetch[f].hash]]
        <3>1. Known(fetch[f].game, fetch[f].ver)
            BY <2>2 DEF CatalogBase
        <3>2. [label |-> fetch[f].ver, hashed |-> fetch[f].hash] \in ManifestType
            BY <1>0 DEF FetchType, ManifestType
        <3>3. \A q \in Titles : \/ man'[q].label = man[q].label
                                \/ q = fetch[f].game /\ man'[q].label = fetch[f].ver
            BY <2>2, <1>0
        <3>. QED  BY <2>2, <3>1, <3>2, <3>3, <1>0 DEF CatalogBase
    <2>. QED  BY <1>6, <2>1, <2>2
<1>8. \A g, v : Known(g, v)' = Known(g, v)
    BY <1>1 DEF Known, Asked
<1>9. CatalogBase'
    <2>1. CatalogTypes'
        BY <1>1, <1>5, <1>7 DEF CatalogBase, CatalogTypes, Asked
    <2>2. ScanPlace(scan', cat')
        BY <1>1 DEF CatalogBase, Asked
    <2>3. \A g \in Titles : disk'[g] <= edits' /\ Known(g, man[g].label)' /\ Known(g, cat[g])' /\ Known(g, scan.found[g])'
        BY <1>1, <1>7, <1>8 DEF CatalogBase, Asked
    <2>4. \A d \in Fetches : fetch'[d].pc # "idle" =>
              /\ fetch'[d].game \in Titles /\ fetch'[d].ver # 0
              /\ Known(fetch[d].game, fetch[d].ver)' /\ Known(fetch[d].game, fetch[d].row)'
        BY <1>4, <1>5, <1>8 DEF CatalogBase
    <2>. QED  BY <1>1, <2>1, <2>2, <2>3, <2>4 DEF CatalogBase, Asked
<1>. QED  BY <1>1, <1>3, <1>5, <1>6, <1>9

\* The watcher's steps, and the ends of a scan.
LEMMA CatalogWatches ==
    ASSUME CatalogBase, WatcherWakes \/ WatcherDrains \/ DebounceOver \/ Rescan \/ SyncFails \/ ScanDone \/ Restart
    PROVE  /\ CatalogBase' /\ UNCHANGED <<disk, edits, cat, man>> /\ scan' \in {scan, FreshScan, NoScan}
           /\ fetch' = fetch \/ fetch' = [f \in Fetches |-> NoFetch]
<1>1. /\ UNCHANGED <<disk, edits, cat, man>> /\ scan' \in {scan, FreshScan, NoScan}
      /\ fetch' = fetch \/ fetch' = [f \in Fetches |-> NoFetch]
    BY DEF WatcherWakes, WatcherDrains, DebounceOver, Rescan, SyncFails, ScanDone, Restart, spawn_rescan, FailScan, Rest
<1>2. wake' \in BOOLEAN /\ watcher' \in {"waiting", "draining"} /\ excused' \subseteq Titles /\ lost' \subseteq Titles
    <2>1. Overlooked \subseteq Titles /\ {g \in Titles : cat[g] # disk[g]} \subseteq Titles
        BY DEF Overlooked, CatalogBase, CatalogTypes, ScanType
    <2>. QED  BY <2>1 DEF WatcherWakes, WatcherDrains, DebounceOver, Rescan, SyncFails, ScanDone, Restart, spawn_rescan,
                          FailScan, Rest, CatalogBase, CatalogTypes
<1>. QED  BY <1>1, <1>2, CatalogRests

\* The types of the catalog, the place of the running scan, and that no row, walk, request
\* or manifest knows a content newer than the disk's.
THEOREM CatalogInvariance == CatalogSpec => []CatalogBase
<1>1. CatalogInit => CatalogBase
    <2>. SUFFICES ASSUME CatalogInit PROVE CatalogBase
        OBVIOUS
    <2>0. 0 \in Contents /\ 0 <= 0
        BY CatalogConstants DEF Contents
    <2>1. NoFetch \in FetchType /\ NoFetch.pc = "idle" /\ NoManifest \in ManifestType /\ NoManifest.label = 0
        BY <2>0 DEF NoFetch, FetchType, NoManifest, ManifestType
    <2>2. CatalogTypes
        BY <2>0, <2>1, ScanStarts DEF CatalogInit, CatalogTypes
    <2>3. ScanPlace(scan, cat) /\ \A g \in Titles : scan.found[g] = 0 /\ cat[g] = 0
        BY ScanStarts DEF CatalogInit
    <2>4. \A g \in Titles : disk[g] <= edits /\ man[g].label = 0
        BY <2>0, <2>1 DEF CatalogInit
    <2>5. \A f \in Fetches : fetch[f].pc = "idle"
        BY <2>1 DEF CatalogInit
    <2>. QED  BY <2>2, <2>3, <2>4, <2>5, NothingKnown DEF CatalogBase
<1>2. CatalogBase /\ [CatalogNext]_catalogVars => CatalogBase'
    <2>. SUFFICES ASSUME CatalogBase, [CatalogNext]_catalogVars PROVE CatalogBase'
        OBVIOUS
    <2>1. CASE UNCHANGED catalogVars
        <3>1. UNCHANGED <<disk, edits, wake, watcher, scan, cat, man, fetch, excused, lost>>
            BY <2>1 DEF catalogVars
        <3>2. \A g, v : Known(g, v)' = Known(g, v)
            BY <3>1 DEF Known
        <3>3. CatalogTypes' /\ ScanPlace(scan', cat')
            BY <3>1 DEF CatalogBase, CatalogTypes
        <3>. QED  BY <3>1, <3>2, <3>3 DEF CatalogBase
    <2>2. CASE WatcherWakes \/ WatcherDrains \/ DebounceOver \/ Rescan \/ SyncFails \/ ScanDone \/ Restart
        BY <2>2, CatalogWatches
    <2>3. CASE ListExisting \/ StartPrune \/ StartHash \/ ListManifests \/ ManifestsEnsured
        BY <2>3, CatalogStages
    <2>4. ASSUME NEW g \in Titles, DiskChange(g, FALSE) \/ DiskChange(g, TRUE)
          PROVE  CatalogBase'
        BY <2>4, CatalogDisk
    <2>5. ASSUME NEW g \in Titles, WalkGame(g) \/ WalkError(g) \/ WalkStops(g)
          PROVE  CatalogBase'
        BY <2>5, CatalogWalks
    <2>6. ASSUME NEW g \in Titles,
                 UpsertGame(g) \/ PruneGame(g) \/ HashGame(g) \/ StoreHash(g) \/ DropRow(g) \/ DropSegments(g)
          PROVE  CatalogBase'
        BY <2>6, CatalogRows, CatalogHashes, CatalogDrops
    <2>7. ASSUME NEW f \in Fetches, Fetching(f)
          PROVE  CatalogBase'
        BY <2>7, CatalogFetches
    <2>. QED  BY <2>1, <2>2, <2>3, <2>4, <2>5, <2>6, <2>7 DEF CatalogNext, Fetching
<1>. QED  BY <1>1, <1>2, PTL DEF CatalogSpec

\* What a launcher is given is honest, or is what another request left that has overtaken it.
Served(x) ==
    \/ Honest(x.game, x.ver, x.hash)
    \/ x.row < x.ver /\ (x.row # 0 => Honest(x.game, x.row, x.hash))

\* Whatever is on its way to game_manifests is honest, what is there, and what is served.
HashesHonest ==
    /\ \A g \in Titles : 0 \notin {man[g].label, man[g].hashed} => Honest(g, man[g].label, man[g].hashed)
    /\ \A g \in Titles : scan.hash[g] # 0 =>
           scan.found[g] # 0 /\ Honest(g, scan.found[g], scan.hash[g])
    /\ \A f \in Fetches : fetch[f].pc = "store" => Honest(fetch[f].game, fetch[f].ver, fetch[f].hash)
    /\ \A f \in Fetches : fetch[f].pc = "served" => Served(fetch[f])

\* Hashes of the content on disk are honest under any label that was there before.
LEMMA HashedNow ==
    ASSUME CatalogTypes, NEW g \in Titles, NEW v \in Contents, Known(g, v), disk[g] # 0
    PROVE  Honest(g, v, disk[g])
<1>1. disk[g] \in Nat /\ v \in Nat
    BY CatalogConstants DEF CatalogTypes, Contents
<1>. QED  BY <1>1 DEF Known, Honest

\* A step that leaves the library alone: what it adds must be honest.
LEMMA HonestKept ==
    ASSUME HashesHonest, UNCHANGED disk,
           \A g \in Titles : \/ man'[g] = man[g] \/ 0 \in {man'[g].label, man'[g].hashed}
                             \/ Honest(g, man'[g].label, man'[g].hashed),
           \A g \in Titles : \/ scan'.hash[g] = 0
                             \/ scan'.hash[g] = scan.hash[g] /\ scan'.found[g] = scan.found[g]
                             \/ scan'.found[g] # 0 /\ Honest(g, scan'.found[g], scan'.hash[g]),
           \A f \in Fetches : \/ fetch'[f] = fetch[f] \/ fetch'[f].pc \notin {"store", "served"}
                              \/ Honest(fetch'[f].game, fetch'[f].ver, fetch'[f].hash)
                              \/ fetch'[f].pc = "served" /\ Served(fetch'[f])
    PROVE  HashesHonest'
<1>0. \A g, v, h : Honest(g, v, h)' = Honest(g, v, h)
    BY DEF Honest
<1>1. \A g \in Titles : 0 \notin {man'[g].label, man'[g].hashed} => Honest(g, man'[g].label, man'[g].hashed)
    BY DEF HashesHonest
<1>2. \A g \in Titles : scan'.hash[g] # 0 =>
          scan'.found[g] # 0 /\ Honest(g, scan'.found[g], scan'.hash[g])
    BY DEF HashesHonest
<1>3. \A f \in Fetches : fetch'[f].pc = "store" => Honest(fetch'[f].game, fetch'[f].ver, fetch'[f].hash)
    BY DEF HashesHonest
<1>4. \A f \in Fetches : fetch'[f].pc = "served" => Served(fetch'[f])
    BY DEF HashesHonest, Served
<1>5. \A x : Served(x)' = Served(x)
    BY <1>0 DEF Served
<1>6. \A f \in Fetches : fetch'[f].pc = "served" => Served(fetch[f])'
    BY <1>4, <1>0 DEF Served
<1>. QED  BY <1>0, <1>1, <1>2, <1>3, <1>6 DEF HashesHonest

\* A change on disk makes every label on its way an old one.
LEMMA HonestOnDisk ==
    ASSUME CatalogBase, HashesHonest, NEW g \in Titles, NEW removed \in BOOLEAN, DiskChange(g, removed)
    PROVE  HashesHonest'
<1>1. /\ UNCHANGED <<scan, man, fetch>>
      /\ \A q \in Titles, v \in Contents : Known(q, v) /\ v # 0 =>
             (q = g => v # disk'[q]) /\ (q # g => disk'[q] = disk[q])
    BY CatalogDisk DEF DiskChange
<1>2. ASSUME NEW q \in Titles, NEW v \in Contents, NEW hashed, v # 0, Known(q, v), Honest(q, v, hashed)
      PROVE  Honest(q, v, hashed)'
    BY <1>1, <1>2 DEF Honest
<1>3. \A q \in Titles : 0 \notin {man[q].label, man[q].hashed} => Honest(q, man[q].label, man[q].hashed)'
    <2>1. \A q \in Titles : man[q].label \in Contents /\ Known(q, man[q].label)
        BY DEF CatalogBase, CatalogTypes, ManifestType
    <2>. QED  BY <2>1, <1>1, <1>2 DEF HashesHonest
<1>4. \A q \in Titles : scan.hash[q] # 0 =>
          scan.found[q] # 0 /\ Honest(q, scan.found[q], scan.hash[q])'
    <2>1. \A q \in Titles : scan.found[q] \in Contents /\ Known(q, scan.found[q])
        BY DEF CatalogBase, CatalogTypes, ScanType
    <2>. QED  BY <2>1, <1>1, <1>2 DEF HashesHonest
<1>5. \A f \in Fetches : fetch[f].pc # "idle" =>
          /\ fetch[f].game \in Titles /\ fetch[f].ver \in Contents /\ fetch[f].row \in Contents
          /\ fetch[f].ver # 0 /\ Known(fetch[f].game, fetch[f].ver) /\ Known(fetch[f].game, fetch[f].row)
    BY DEF CatalogBase, CatalogTypes, FetchType
<1>6. \A f \in Fetches : fetch[f].pc = "store" => Honest(fetch[f].game, fetch[f].ver, fetch[f].hash)'
    BY <1>1, <1>2, <1>5 DEF HashesHonest
<1>7. ASSUME NEW f \in Fetches, fetch[f].pc = "served"
      PROVE  Served(fetch[f])'
    <2>1. Served(fetch[f])
        BY <1>7 DEF HashesHonest
    <2>2. CASE Honest(fetch[f].game, fetch[f].ver, fetch[f].hash)
        <3>1. Honest(fetch[f].game, fetch[f].ver, fetch[f].hash)'
            BY <1>1, <1>2, <1>5, <1>7, <2>2
        <3>. QED  BY <3>1 DEF Served
    <2>3. CASE fetch[f].row < fetch[f].ver /\ (fetch[f].row # 0 => Honest(fetch[f].game, fetch[f].row, fetch[f].hash))
        <3>1. fetch[f].row # 0 => Honest(fetch[f].game, fetch[f].row, fetch[f].hash)'
            BY <1>1, <1>2, <1>5, <1>7, <2>3
        <3>2. fetch'[f].row < fetch'[f].ver
            BY <1>1, <2>3
        <3>. QED  BY <1>1, <3>1, <3>2 DEF Served
    <2>. QED  BY <2>1, <2>2, <2>3 DEF Served
<1>. QED  BY <1>1, <1>3, <1>4, <1>6, <1>7 DEF HashesHonest

\* Scans keep what is hashed honest.
LEMMA HonestScans ==
    ASSUME CatalogBase, CatalogBase', HashesHonest,
           \/ WatcherWakes \/ WatcherDrains \/ DebounceOver \/ Rescan \/ SyncFails \/ ScanDone \/ Restart
           \/ ListExisting \/ StartPrune \/ StartHash \/ ListManifests \/ ManifestsEnsured
           \/ \E g \in Titles : \/ WalkGame(g) \/ WalkError(g) \/ WalkStops(g) \/ UpsertGame(g)
                                \/ PruneGame(g) \/ HashGame(g) \/ StoreHash(g) \/ DropRow(g) \/ DropSegments(g)
    PROVE  HashesHonest'
<1>1. ASSUME scan'.pc \in {"idle", "walk", "upsert", "prune"} \/ (scan'.hash = scan.hash /\ scan'.found = scan.found),
             UNCHANGED disk, \A g \in Titles : man'[g] = man[g] \/ 0 \in {man'[g].label, man'[g].hashed},
             \A f \in Fetches : fetch'[f] = fetch[f] \/ fetch'[f].pc \notin {"store", "served"}
      PROVE  HashesHonest'
    <2>1. \A g \in Titles : scan'.hash[g] = 0 \/ (scan'.hash[g] = scan.hash[g] /\ scan'.found[g] = scan.found[g])
        BY <1>1 DEF CatalogBase, ScanPlace
    <2>. QED  BY <1>1, <2>1, HonestKept
<1>2. CASE WatcherWakes \/ WatcherDrains \/ DebounceOver \/ Rescan \/ SyncFails \/ ScanDone \/ Restart
    <2>1. /\ UNCHANGED <<disk, man>> /\ scan' \in {scan, FreshScan, NoScan}
          /\ fetch' = fetch \/ fetch' = [f \in Fetches |-> NoFetch]
        BY <1>2, CatalogWatches
    <2>2. NoFetch.pc = "idle"
        BY DEF NoFetch
    <2>3. \A f \in Fetches : fetch'[f] = fetch[f] \/ fetch'[f].pc \notin {"store", "served"}
        BY <2>1, <2>2
    <2>. QED  BY <1>1, <2>1, <2>3, ScanStarts
<1>3. CASE ListExisting \/ StartPrune \/ StartHash \/ ListManifests \/ ManifestsEnsured
    <2>1. scan \in ScanType /\ scan'.hash = scan.hash /\ scan'.found = scan.found
        BY <1>3 DEF ListExisting, StartPrune, StartHash, ListManifests, ManifestsEnsured, Stage,
                    CatalogBase, CatalogTypes, ScanType
    <2>2. UNCHANGED <<disk, fetch, man>>
        BY <1>3 DEF ListExisting, StartPrune, StartHash, ListManifests, ManifestsEnsured, Rest
    <2>. QED  BY <1>1, <2>1, <2>2
<1>4. ASSUME NEW g \in Titles, WalkGame(g) \/ WalkError(g) \/ WalkStops(g) \/ UpsertGame(g) \/ PruneGame(g)
      PROVE  HashesHonest'
    <2>1. scan \in ScanType /\ NoScan.pc = "idle"
        BY ScanStarts DEF CatalogBase, CatalogTypes
    <2>2. scan'.pc \in {"idle", "walk", "upsert", "prune"}
        BY <1>4, <2>1 DEF WalkGame, WalkError, WalkStops, UpsertGame, PruneGame, FailScan, Walked, Stage, ScanType
    <2>3. UNCHANGED <<disk, fetch, man>>
        BY <1>4 DEF WalkGame, WalkError, WalkStops, UpsertGame, PruneGame, Rest
    <2>. QED  BY <1>1, <2>2, <2>3
<1>5. ASSUME NEW g \in Titles, HashGame(g) \/ StoreHash(g)
      PROVE  HashesHonest'
    <2>1. /\ scan'.found = scan.found /\ UNCHANGED <<Rest, cat, excused, lost>> /\ scan.pc = "hash"
          /\ \A q \in Titles \ {g} : scan'.hash[q] = scan.hash[q]
          /\ HashGame(g) /\ scan'.hash[g] # 0 => scan'.hash[g] = disk[g] /\ scan.found[g] # 0
          /\ StoreHash(g) => scan'.hash[g] = 0
        BY <1>5, CatalogHashes
    <2>2. UNCHANGED <<disk, fetch>>
        BY <2>1 DEF Rest
    <2>3. /\ CatalogTypes /\ scan.found[g] \in Contents /\ Known(g, scan.found[g])
          /\ man \in [Titles -> ManifestType]
        BY DEF CatalogBase, CatalogTypes, ScanType
    <2>4. scan'.hash[g] = 0 \/ (scan'.found[g] # 0 /\ Honest(g, scan'.found[g], scan'.hash[g]))
        BY <1>5, <2>1, <2>3, HashedNow
    <2>5. \A q \in Titles : \/ man'[q] = man[q] \/ 0 \in {man'[q].label, man'[q].hashed}
                            \/ Honest(q, man'[q].label, man'[q].hashed)
        <3>1. man' = man \/ (StoreHash(g) /\ man' = [man EXCEPT ![g] = [label |-> scan.found[g], hashed |-> scan.hash[g]]])
            BY <1>5 DEF HashGame, StoreHash, store_manifest
        <3>2. StoreHash(g) => Honest(g, scan.found[g], scan.hash[g])
            BY DEF StoreHash, HashesHonest
        <3>. QED  BY <3>1, <3>2, <2>3
    <2>6. \A q \in Titles : \/ scan'.hash[q] = 0
                            \/ scan'.hash[q] = scan.hash[q] /\ scan'.found[q] = scan.found[q]
                            \/ scan'.found[q] # 0 /\ Honest(q, scan'.found[q], scan'.hash[q])
        BY <2>1, <2>4
    <2>. QED  BY <2>2, <2>5, <2>6, HonestKept
<1>6. ASSUME NEW g \in Titles, DropRow(g) \/ DropSegments(g)
      PROVE  HashesHonest'
    <2>1. /\ UNCHANGED <<Rest, cat, excused, lost>> /\ scan'.hash = scan.hash /\ scan'.found = scan.found
          /\ \A q \in Titles : man'[q] = man[q] \/ 0 \in {man'[q].label, man'[q].hashed}
        BY <1>6, CatalogDrops
    <2>. QED  BY <1>1, <2>1 DEF Rest
<1>. QED  BY <1>2, <1>3, <1>4, <1>5, <1>6

\* What a request reads and files is honest: segments read after the row went on to an older
\* version are what was filed under that one, and under a newer one they are newer.
LEMMA HonestFetches ==
    ASSUME CatalogBase, CatalogBase', HashesHonest, NEW f \in Fetches, Fetching(f)
    PROVE  HashesHonest'
<1>0. /\ UNCHANGED <<disk, scan>> /\ man \in [Titles -> ManifestType] /\ fetch[f] \in FetchType
      /\ \A d \in Fetches \ {f} : fetch'[d] = fetch[d]
      /\ FetchStep(fetch[f], fetch'[f])
      /\ man' = man \/ (fetch[f].pc = "store" /\ fetch[f].game \in Titles /\ fetch[f].ver # 0 /\
             man' = [man EXCEPT ![fetch[f].game] = [label |-> fetch[f].ver, hashed |-> fetch[f].hash]])
    BY CatalogFetches DEF Asked, CatalogBase, CatalogTypes
<1>1. fetch[f].pc # "idle" => /\ fetch[f].game \in Titles /\ fetch[f].ver \in Nat \ {0} /\ fetch[f].ver \in Contents
                              /\ Known(fetch[f].game, fetch[f].ver)
    BY <1>0, CatalogConstants DEF CatalogBase, FetchType, Contents
<1>2. fetch[f].pc = "store" => Honest(fetch[f].game, fetch[f].ver, fetch[f].hash)
    BY DEF HashesHonest
<1>3. \A q \in Titles : \/ man'[q] = man[q] \/ 0 \in {man'[q].label, man'[q].hashed}
                        \/ Honest(q, man'[q].label, man'[q].hashed)
    BY <1>0, <1>2
<1>4. \/ fetch'[f].pc \notin {"store", "served"}
      \/ Honest(fetch'[f].game, fetch'[f].ver, fetch'[f].hash)
      \/ fetch'[f].pc = "served" /\ Served(fetch'[f])
    <2>. DEFINE x == fetch[f]
                m == man[x.game]
    <2>1. CASE fetch'[f] = NoFetch
        BY <2>1 DEF NoFetch
    <2>2. ASSUME NEW g \in Titles, fetch'[f] = [NoFetch EXCEPT !.pc = "load", !.game = g, !.ver = cat[g]]
          PROVE  fetch'[f].pc = "load"
        BY <2>2 DEF NoFetch
    <2>3. CASE fetch'[f] \in {[x EXCEPT !.pc = "segments"], [x EXCEPT !.pc = "read"]}
        BY <2>3, <1>0 DEF FetchType
    <2>4. CASE /\ x.pc = "segments" /\ m.hashed # 0
               /\ fetch'[f] = [x EXCEPT !.pc = "served", !.hash = m.hashed, !.row = m.label]
        <3>1. /\ fetch'[f].pc = "served" /\ fetch'[f].game = x.game /\ fetch'[f].ver = x.ver
              /\ fetch'[f].hash = m.hashed /\ fetch'[f].row = m.label
            BY <2>4, <1>0 DEF FetchType
        <3>2. /\ m.label \in Nat /\ m.hashed \in Nat /\ disk[x.game] \in Nat /\ Known(x.game, m.label)
              /\ m.label # 0 => Honest(x.game, m.label, m.hashed)
            BY <2>4, <1>0, <1>1, CatalogConstants DEF CatalogBase, CatalogTypes, ManifestType, Contents, HashesHonest
        <3>3. CASE m.label < x.ver
            BY <3>1, <3>2, <3>3 DEF Served
        <3>4. CASE m.label >= x.ver
            <4>1. m.hashed >= m.label /\ (m.label = disk[x.game] => m.hashed = disk[x.game])
                BY <2>4, <3>2, <3>4, <1>1 DEF Honest
            <4>2. disk[x.game] = 0 \/ m.label <= disk[x.game]
                BY <3>2 DEF Known
            <4>3. m.hashed >= x.ver /\ (x.ver = disk[x.game] => m.hashed = disk[x.game])
                BY <2>4, <3>2, <3>4, <4>1, <4>2, <1>1
            <4>. QED  BY <3>1, <4>3 DEF Honest
        <3>. QED  BY <3>2, <3>3, <3>4, <2>4, <1>1
    <2>5. CASE /\ x.pc = "read" /\ disk[x.game] # 0
               /\ fetch'[f] = [x EXCEPT !.pc = "store", !.hash = disk[x.game]]
        <3>1. /\ fetch'[f].game = x.game /\ fetch'[f].ver = x.ver /\ fetch'[f].hash = disk[x.game]
            BY <2>5, <1>0 DEF FetchType
        <3>2. Honest(x.game, x.ver, disk[x.game])
            BY <2>5, <1>1, HashedNow DEF CatalogBase
        <3>. QED  BY <3>1, <3>2
    <2>6. CASE x.pc = "store" /\ fetch'[f] = [x EXCEPT !.pc = "served", !.row = x.ver]
        <3>1. /\ fetch'[f].game = x.game /\ fetch'[f].ver = x.ver /\ fetch'[f].hash = x.hash
            BY <2>6, <1>0 DEF FetchType
        <3>. QED  BY <2>6, <3>1, <1>2
    <2>. HIDE DEF x, m
    <2>. QED  BY <1>0, <2>1, <2>2, <2>3, <2>4, <2>5, <2>6 DEF FetchStep, x, m
<1>. QED  BY <1>0, <1>3, <1>4, HonestKept

\* ManifestHonest: hashes filed under a version, or served for it, are never older than it,
\* and a launcher that installs the version on disk gets the hashes of exactly that content,
\* however scans, deletions, requests that hold an old row and changes on disk overlap; only
\* a request overtaken between its two reads is given an older version's, or a deleted one's.
THEOREM ManifestsHonest == CatalogSpec => []ManifestHonest
<1>1. CatalogInit => HashesHonest
    <2>. SUFFICES ASSUME CatalogInit PROVE HashesHonest
        OBVIOUS
    <2>1. \A g \in Titles : man[g].label = 0 /\ scan.hash[g] = 0
        BY DEF CatalogInit, NoManifest, NoScan
    <2>2. \A f \in Fetches : fetch[f].pc = "idle"
        BY DEF CatalogInit, NoFetch
    <2>. QED  BY <2>1, <2>2 DEF HashesHonest
<1>2. CatalogBase /\ CatalogBase' /\ HashesHonest /\ [CatalogNext]_catalogVars => HashesHonest'
    <2>. SUFFICES ASSUME CatalogBase, CatalogBase', HashesHonest, [CatalogNext]_catalogVars PROVE HashesHonest'
        OBVIOUS
    <2>1. CASE UNCHANGED catalogVars
        <3>1. UNCHANGED <<disk, scan, man, fetch>>
            BY <2>1 DEF catalogVars
        <3>. QED  BY <3>1, HonestKept
    <2>2. ASSUME NEW g \in Titles, DiskChange(g, FALSE) \/ DiskChange(g, TRUE)
          PROVE  HashesHonest'
        BY <2>2, HonestOnDisk
    <2>3. ASSUME NEW f \in Fetches, Fetching(f)
          PROVE  HashesHonest'
        BY <2>3, HonestFetches
    <2>. QED  BY <2>1, <2>2, <2>3, HonestScans DEF CatalogNext, Fetching
<1>3. HashesHonest => ManifestHonest
    BY DEF HashesHonest, ManifestHonest, Served
<1>. QED  BY <1>1, <1>2, <1>3, CatalogInvariance, PTL DEF CatalogSpec

\* A change the watcher has still to see.
Pending == wake \/ watcher = "draining"

\* With nothing pending, what the running scan has walked, or the catalog when none runs,
\* is the library, but for the known gaps.
Caught ==
    ~Pending => /\ ~Idle => \A g \in scan.walked \ excused : scan.found[g] = disk[g]
                /\ Idle => \A g \in Titles \ excused : cat[g] = disk[g]

\* Whoever starts a scan, or finds one running, catches up with the library.
LEMMA CaughtByWatcher ==
    ASSUME CatalogBase, Caught,
           \/ WatcherWakes \/ WatcherDrains \/ DebounceOver \/ Rescan \/ SyncFails \/ ScanDone \/ Restart
           \/ \E g \in Titles : DiskChange(g, FALSE) \/ DiskChange(g, TRUE)
    PROVE  Caught'
<1>1. ASSUME NEW g \in Titles, DiskChange(g, FALSE) \/ DiskChange(g, TRUE)
      PROVE  Caught'
    <2>1. UNCHANGED <<watcher, scan, cat>> /\ \A q \in Titles \ {g} : disk'[q] = disk[q]
        BY <1>1 DEF DiskChange, CatalogBase, CatalogTypes
    <2>2. wake' \/ (wake' = wake /\ excused' = excused \cup {g})
        BY <1>1 DEF DiskChange
    <2>3. scan.walked \subseteq Titles
        BY DEF CatalogBase, CatalogTypes, ScanType
    <2>. QED  BY <2>1, <2>2, <2>3 DEF Caught, Pending, Idle
<1>2. CASE WatcherWakes \/ WatcherDrains
    BY <1>2 DEF WatcherWakes, WatcherDrains, Caught, Pending
<1>3. CASE DebounceOver \/ Rescan
    <2>1. UNCHANGED disk /\ spawn_rescan
        BY <1>3 DEF DebounceOver, Rescan
    <2>2. CASE Idle
        <3>1. scan'.pc = "walk" /\ scan'.walked = {}
            BY <2>1, <2>2, ScanStarts DEF spawn_rescan
        <3>. QED  BY <3>1 DEF Caught, Idle
    <2>3. CASE ~Idle
        <3>1. scan' = scan /\ excused' = excused \cup Overlooked /\ scan.walked \subseteq Titles
            BY <2>1, <2>3 DEF spawn_rescan, CatalogBase, CatalogTypes, ScanType
        <3>2. \A g \in scan'.walked \ excused' : scan'.found[g] = disk'[g]
            BY <2>1, <3>1 DEF Overlooked
        <3>. QED  BY <2>3, <3>1, <3>2 DEF Caught, Idle
    <2>. QED  BY <2>2, <2>3
<1>4. CASE SyncFails \/ Restart
    <2>1. UNCHANGED <<disk, cat>> /\ excused' = excused \cup {g \in Titles : cat[g] # disk[g]} /\ scan' = NoScan
        BY <1>4 DEF SyncFails, Restart, FailScan, Rest
    <2>2. \A g \in Titles \ excused' : cat'[g] = disk'[g]
        BY <2>1
    <2>. QED  BY <2>1, <2>2, ScanStarts DEF Caught, Idle
<1>5. CASE ScanDone
    <2>1. scan.pc = "enrich" /\ scan' = NoScan /\ UNCHANGED <<disk, wake, watcher, cat, excused>>
        BY <1>5 DEF ScanDone, Rest
    <2>2. scan.walked = Titles /\ \A g \in Titles : cat[g] = scan.found[g]
        BY <2>1 DEF CatalogBase, ScanPlace
    <2>3. ~Pending => \A g \in Titles \ excused : cat[g] = disk[g]
        BY <2>1, <2>2 DEF Caught, Idle
    <2>. QED  BY <2>1, <2>3, ScanStarts DEF Caught, Idle, Pending
<1>. QED  BY <1>1, <1>2, <1>3, <1>4, <1>5

\* The walk records what is there, or excuses the game.
LEMMA CaughtByWalk ==
    ASSUME CatalogBase, Caught, NEW g \in Titles, WalkGame(g) \/ WalkError(g) \/ WalkStops(g)
    PROVE  Caught'
<1>0. scan \in ScanType /\ scan.pc = "walk" /\ UNCHANGED <<disk, wake, watcher, cat>>
    BY DEF WalkGame, WalkError, WalkStops, Rest, CatalogBase, CatalogTypes
<1>1. CASE WalkError(g) /\ FailScan
    <2>1. excused' = excused \cup {q \in Titles : cat[q] # disk[q]} /\ scan' = NoScan
        BY <1>1 DEF FailScan
    <2>2. \A q \in Titles \ excused' : cat'[q] = disk'[q]
        BY <1>0, <2>1
    <2>. QED  BY <2>1, <2>2, ScanStarts DEF Caught, Idle
<1>2. ASSUME scan'.pc = "walk",
             \A q \in scan'.walked \ excused' :
                 scan'.found[q] = disk[q] \/ (q \in scan.walked \ excused /\ scan'.found[q] = scan.found[q])
      PROVE  Caught'
    <2>1. ~Pending => \A q \in scan'.walked \ excused' : scan'.found[q] = disk[q]
        BY <1>0, <1>2 DEF Caught, Idle
    <2>. QED  BY <1>0, <1>2, <2>1 DEF Caught, Idle, Pending
<1>3. CASE WalkGame(g)
    <2>. DEFINE found == [scan.found EXCEPT ![g] = disk[g]]
    <2>1. found[g] = disk[g] /\ \A q \in Titles \ {g} : found[q] = scan.found[q]
        BY <1>0 DEF ScanType
    <2>2. scan' = Walked(found, {g}) /\ excused' = excused
        BY <1>3 DEF WalkGame
    <2>. HIDE DEF found
    <2>3. scan'.pc = "walk" /\ scan'.found = found /\ scan'.walked = scan.walked \cup {g} /\ scan.walked \subseteq Titles
        BY <1>0, <2>2 DEF Walked, ScanType
    <2>. QED  BY <1>2, <2>1, <2>2, <2>3
<1>4. CASE WalkError(g) /\ ~FailScan
    <2>1. scan' = Walked(scan.found, {g}) /\ excused' = excused \cup {g}
        BY <1>4 DEF WalkError
    <2>2. scan'.pc = "walk" /\ scan'.found = scan.found /\ scan'.walked = scan.walked \cup {g}
        BY <1>0, <2>1 DEF Walked, ScanType
    <2>. QED  BY <1>2, <2>1, <2>2
<1>5. CASE WalkStops(g)
    <2>1. scan' = [Walked(scan.found, scan.todo) EXCEPT !.cut = scan.todo \ {g}] /\ excused' = excused \cup scan.todo
        BY <1>5 DEF WalkStops
    <2>2. scan'.pc = "walk" /\ scan'.found = scan.found /\ scan'.walked = scan.walked \cup scan.todo
        BY <1>0, <2>1 DEF Walked, ScanType
    <2>. QED  BY <1>2, <2>1, <2>2
<1>. QED  BY <1>1, <1>3, <1>4, <1>5

\* The later stages, and the requests, leave what was walked alone.
LEMMA CaughtAfterWalk ==
    ASSUME CatalogBase, Caught,
           \/ ListExisting \/ StartPrune \/ StartHash \/ ListManifests \/ ManifestsEnsured
           \/ \E g \in Titles : \/ UpsertGame(g) \/ PruneGame(g) \/ HashGame(g) \/ StoreHash(g)
                                \/ DropRow(g) \/ DropSegments(g)
           \/ \E f \in Fetches : Fetching(f)
    PROVE  Caught'
<1>0. scan \in ScanType
    BY DEF CatalogBase, CatalogTypes
<1>1. ASSUME scan.pc # "idle", scan'.pc # "idle", scan'.walked = scan.walked, scan'.found = scan.found,
             UNCHANGED <<disk, wake, watcher, excused>>
      PROVE  Caught'
    BY <1>1 DEF Caught, Idle, Pending
<1>2. CASE ListExisting \/ StartPrune \/ StartHash \/ ListManifests \/ ManifestsEnsured
    <2>1. /\ scan.pc # "idle" /\ scan'.pc # "idle" /\ scan'.walked = scan.walked /\ scan'.found = scan.found
        BY <1>0, <1>2 DEF ListExisting, StartPrune, StartHash, ListManifests, ManifestsEnsured, Stage, ScanType
    <2>2. UNCHANGED <<disk, wake, watcher, excused>>
        BY <1>2 DEF ListExisting, StartPrune, StartHash, ListManifests, ManifestsEnsured, Rest
    <2>. QED  BY <1>1, <2>1, <2>2
<1>3. ASSUME NEW g \in Titles, UpsertGame(g) \/ PruneGame(g)
      PROVE  Caught'
    <2>1. /\ scan.pc # "idle" /\ scan'.pc # "idle" /\ scan'.walked = scan.walked /\ scan'.found = scan.found
        BY <1>0, <1>3 DEF UpsertGame, PruneGame, Stage, ScanType
    <2>2. UNCHANGED <<disk, wake, watcher, excused>>
        BY <1>3 DEF UpsertGame, PruneGame, Rest
    <2>. QED  BY <1>1, <2>1, <2>2
<1>4. ASSUME NEW g \in Titles, HashGame(g) \/ StoreHash(g)
      PROVE  Caught'
    <2>1. /\ scan'.found = scan.found /\ scan'.walked = scan.walked /\ scan.pc = "hash"
          /\ scan'.pc = scan.pc /\ UNCHANGED <<Rest, cat, excused, lost>>
        BY <1>4, CatalogHashes
    <2>. QED  BY <1>1, <2>1 DEF Rest
<1>5. ASSUME NEW g \in Titles, DropRow(g) \/ DropSegments(g)
      PROVE  Caught'
    <2>1. /\ scan'.found = scan.found /\ scan'.walked = scan.walked /\ scan.pc = "drop"
          /\ scan'.pc = "drop" /\ UNCHANGED <<Rest, cat, excused, lost>>
        BY <1>5, CatalogDrops
    <2>. QED  BY <1>1, <2>1 DEF Rest
<1>6. ASSUME NEW f \in Fetches, Fetching(f)
      PROVE  Caught'
    <2>1. UNCHANGED Asked
        BY <1>6, CatalogFetches
    <2>. QED  BY <2>1 DEF Asked, Caught, Idle, Pending
<1>. QED  BY <1>2, <1>3, <1>4, <1>5, <1>6

\* WatcherCatches: with the watcher at rest and no scan running the catalog shows the
\* library, but for the gaps that have opened since the last scan started (a change behind
\* it, whose wake-up was dropped, or that was never reported; what it could not read, with
\* or without noticing; its failure; a restart).
THEOREM CatalogCatchesUp == CatalogSpec => []WatcherCatches
<1>1. CatalogInit => Caught
    BY DEF CatalogInit, Caught, Idle, NoScan
<1>2. CatalogBase /\ Caught /\ [CatalogNext]_catalogVars => Caught'
    <2>. SUFFICES ASSUME CatalogBase, Caught, [CatalogNext]_catalogVars PROVE Caught'
        OBVIOUS
    <2>1. CASE UNCHANGED catalogVars
        BY <2>1 DEF catalogVars, Caught, Idle, Pending
    <2>2. ASSUME NEW g \in Titles, WalkGame(g) \/ WalkError(g) \/ WalkStops(g)
          PROVE  Caught'
        BY <2>2, CaughtByWalk
    <2>. QED  BY <2>1, <2>2, CaughtByWatcher, CaughtAfterWalk DEF CatalogNext, Fetching
<1>3. CatalogBase /\ Caught => WatcherCatches
    BY DEF CatalogBase, CatalogTypes, Caught, Pending, WatcherCatches
<1>. QED  BY <1>1, <1>2, <1>3, CatalogInvariance, PTL DEF CatalogSpec

-----------------------------------------------------------------------------
(* Notifications *)

PostType == [pc : {"idle", "push"}, at : Instances \cup {NoPost.at}, id : Nat]

NotesBase ==
    /\ read \in Seq(BOOLEAN)
    /\ post \in [Posters -> PostType]
    /\ sock \in [Sockets -> {"off", "registered", "selected", "serving"}]
    /\ page \in [Sockets -> SUBSET Nat] /\ shown \in [Sockets -> SUBSET Nat]
    /\ missed \in [Sockets -> SUBSET Nat]
    /\ bus \in [Instances -> Seq(Nat)]
    /\ \A p \in Posters : post[p].pc = "push" => post[p].at \in Instances /\ post[p].id \in DOMAIN read

OnBus(q, n) == \E k \in DOMAIN q : q[k] = n

\* Notification n was sent to socket s, is on its way to it, or is known to be missed.
Promised(s, n) ==
    \/ n \in shown[s] \cup missed[s]
    \/ OnBus(bus[At[s]], n)
    \/ \E p \in Posters : post[p].id = n

\* A served socket has been promised the unread rows; a socket that has selected its
\* batch has them in the batch or was promised them.
AllPromised ==
    \A s \in Sockets, n \in DOMAIN read : ~read[n] =>
        /\ sock[s] = "serving" => Promised(s, n)
        /\ sock[s] = "selected" => n \in page[s] \/ Promised(s, n)

\* A frame leaves the bus at its head only ...
LEMMA BusHeads ==
    ASSUME NEW q \in Seq(Nat), q # <<>>, NEW n, OnBus(q, n), n # Head(q)
    PROVE  OnBus(Tail(q), n)
<1>1. PICK k \in DOMAIN q : q[k] = n
    BY DEF OnBus
<1>2. k # 1 /\ k \in 2 .. Len(q)
    BY <1>1
<1>3. k - 1 \in DOMAIN Tail(q) /\ Tail(q)[k - 1] = n
    BY <1>1, <1>2
<1>. QED  BY <1>3 DEF OnBus

\* ... and is put at its end.
LEMMA BusAppends ==
    ASSUME NEW q \in Seq(Nat), NEW m \in Nat
    PROVE  /\ Append(q, m) \in Seq(Nat) /\ OnBus(Append(q, m), m)
           /\ \A n : OnBus(q, n) => OnBus(Append(q, m), n)
<1>1. Append(q, m) \in Seq(Nat) /\ Len(q) + 1 \in DOMAIN Append(q, m) /\ Append(q, m)[Len(q) + 1] = m
    OBVIOUS
<1>2. \A k \in DOMAIN q : k \in DOMAIN Append(q, m) /\ Append(q, m)[k] = q[k]
    OBVIOUS
<1>. QED  BY <1>1, <1>2 DEF OnBus

\* What a frame pushed on one instance does to the sockets there, ...
LEMMA Delivers ==
    ASSUME NotesBase, NEW i, NEW n \in Nat, deliver_local(i, n)
    PROVE  /\ shown' \in [Sockets -> SUBSET Nat]
           /\ \A s \in Sockets : shown[s] \subseteq shown'[s] /\ (InHub(s) /\ At[s] = i => n \in shown'[s])
<1>1. ASSUME NEW s \in Sockets
      PROVE  /\ shown'[s] \in SUBSET Nat /\ shown[s] \subseteq shown'[s]
             /\ (InHub(s) /\ At[s] = i => n \in shown'[s])
    <2>1. shown'[s] = IF InHub(s) /\ At[s] = i THEN shown[s] \cup {n} ELSE shown[s]
        BY DEF deliver_local
    <2>2. shown[s] \in SUBSET Nat
        BY DEF NotesBase
    <2>. QED  BY <2>1, <2>2
<1>2. shown' = [s \in Sockets |-> shown'[s]]
    BY DEF deliver_local
<1>. QED  BY <1>1, <1>2

\* ... what losing it does, ...
LEMMA Misses ==
    ASSUME NotesBase, NEW ss, NEW n \in Nat, Miss(ss, n)
    PROVE  /\ missed' \in [Sockets -> SUBSET Nat]
           /\ \A s \in Sockets : missed[s] \subseteq missed'[s] /\ (s \in ss /\ sock[s] # "off" => n \in missed'[s])
<1>1. ASSUME NEW s \in Sockets
      PROVE  /\ missed'[s] \in SUBSET Nat /\ missed[s] \subseteq missed'[s]
             /\ (s \in ss /\ sock[s] # "off" => n \in missed'[s])
    <2>1. missed'[s] = IF s \in ss /\ sock[s] # "off" THEN missed[s] \cup {n} ELSE missed[s]
        BY DEF Miss
    <2>2. missed[s] \in SUBSET Nat
        BY DEF NotesBase
    <2>. QED  BY <2>1, <2>2
<1>2. missed' = [s \in Sockets |-> missed'[s]]
    BY DEF Miss
<1>. QED  BY <1>1, <1>2

\* ... and what publishing it does to the other instances.
LEMMA Publishes ==
    ASSUME NotesBase, NEW i, NEW n \in Nat, fanout_publish(i, n)
    PROVE  /\ bus' \in [Instances -> Seq(Nat)]
           /\ \A j \in Instances \ {i} : OnBus(bus'[j], n)
           /\ \A j \in Instances : \A m : OnBus(bus[j], m) => OnBus(bus'[j], m)
<1>1. ASSUME NEW j \in Instances
      PROVE  /\ bus'[j] \in Seq(Nat) /\ (j # i => OnBus(bus'[j], n))
             /\ \A m : OnBus(bus[j], m) => OnBus(bus'[j], m)
    <2>1. bus'[j] = IF j = i THEN bus[j] ELSE Append(bus[j], n)
        BY DEF fanout_publish
    <2>2. bus[j] \in Seq(Nat)
        BY DEF NotesBase
    <2>. QED  BY <2>1, <2>2, BusAppends
<1>2. bus' = [j \in Instances |-> bus'[j]]
    BY DEF fanout_publish
<1>. QED  BY <1>1, <1>2

\* The shapes of the tables, sockets and frames.
THEOREM NotesInvariance == NotesSpec => []NotesBase
<1>0. NoPost \in PostType /\ NoPost.pc = "idle" /\ NoPost.id = 0
    BY DEF NoPost, PostType
<1>1. NotesInit => NotesBase
    BY <1>0 DEF NotesInit, NotesBase
<1>2. NotesBase /\ [NotesNext]_noteVars => NotesBase'
    <2>. SUFFICES ASSUME NotesBase, [NotesNext]_noteVars PROVE NotesBase'
        OBVIOUS
    <2>1. CASE UNCHANGED noteVars
        BY <2>1 DEF noteVars, NotesBase
    <2>2. ASSUME NEW i \in Instances, Relay(i) \/ LoseRelay(i)
          PROVE  NotesBase'
        <3>1. bus[i] \in Seq(Nat) /\ bus[i] # <<>> /\ Head(bus[i]) \in Nat /\ Tail(bus[i]) \in Seq(Nat)
            BY <2>2 DEF Relay, LoseRelay, NotesBase
        <3>2. bus' \in [Instances -> Seq(Nat)] /\ UNCHANGED <<read, post, sock, page>>
            BY <3>1, <2>2 DEF Relay, LoseRelay, NotesBase
        <3>3. shown' \in [Sockets -> SUBSET Nat] /\ missed' \in [Sockets -> SUBSET Nat]
            <4>1. CASE Relay(i)
                BY <4>1, <3>1, Delivers DEF Relay, NotesBase
            <4>2. CASE LoseRelay(i)
                BY <4>2, <3>1, Misses DEF LoseRelay, NotesBase
            <4>. QED  BY <2>2, <4>1, <4>2
        <3>. QED  BY <3>2, <3>3 DEF NotesBase
    <2>3. ASSUME NEW i \in Instances, NEW p \in Posters, Store(p, i)
          PROVE  NotesBase'
        <3>. DEFINE new == [pc |-> "push", at |-> i, id |-> Len(read) + 1]
        <3>1. read' \in Seq(BOOLEAN) /\ DOMAIN read \subseteq DOMAIN read' /\ Len(read) + 1 \in DOMAIN read'
            BY <2>3 DEF Store, NotesBase
        <3>2. new \in PostType /\ new.at = i /\ new.id = Len(read) + 1
            BY DEF NotesBase, PostType
        <3>3. post' = [post EXCEPT ![p] = new] /\ UNCHANGED <<sock, page, shown, bus, missed>>
            BY <2>3 DEF Store
        <3>. HIDE DEF new
        <3>4. /\ post' \in [Posters -> PostType]
              /\ \A r \in Posters : post'[r].pc = "push" => post'[r].at \in Instances /\ post'[r].id \in DOMAIN read'
            BY <3>1, <3>2, <3>3 DEF NotesBase
        <3>. QED  BY <3>1, <3>3, <3>4 DEF NotesBase
    <2>4. ASSUME NEW p \in Posters, PushNote(p) \/ AbortPost(p)
          PROVE  NotesBase'
        <3>1. post[p].id \in Nat /\ post[p].at \in Instances
            BY <2>4 DEF PushNote, AbortPost, NotesBase
        <3>2. /\ post' \in [Posters -> PostType] /\ UNCHANGED <<read, sock, page>>
              /\ \A r \in Posters : post'[r].pc = "push" => post'[r].at \in Instances /\ post'[r].id \in DOMAIN read'
            <4>1. post' = [post EXCEPT ![p] = NoPost] /\ UNCHANGED <<read, sock, page>>
                BY <2>4 DEF PushNote, AbortPost
            <4>. QED  BY <4>1, <1>0 DEF NotesBase
        <3>3. /\ shown' \in [Sockets -> SUBSET Nat] /\ missed' \in [Sockets -> SUBSET Nat]
              /\ bus' \in [Instances -> Seq(Nat)]
            <4>1. CASE PushNote(p)
                BY <4>1, <3>1, Delivers, Publishes DEF PushNote, NotesBase
            <4>2. CASE AbortPost(p)
                BY <4>2, <3>1, Misses DEF AbortPost, NotesBase
            <4>. QED  BY <2>4, <4>1, <4>2
        <3>. QED  BY <3>2, <3>3 DEF NotesBase
    <2>5. ASSUME NEW s \in Sockets, Connect(s) \/ SelectPending(s) \/ SendBatch(s) \/ Disconnect(s)
          PROVE  NotesBase'
        <3>1. Unread \subseteq Nat /\ Newest(Unread) \subseteq Nat
            BY DEF Unread, Newest, NotesBase
        <3>2. UNCHANGED <<read, post, bus>> /\ sock' \in [Sockets -> {"off", "registered", "selected", "serving"}]
            BY <2>5 DEF Connect, SelectPending, SendBatch, Disconnect, NotesBase
        <3>3. /\ page' \in [Sockets -> SUBSET Nat] /\ shown' \in [Sockets -> SUBSET Nat]
              /\ missed' \in [Sockets -> SUBSET Nat]
            <4>0. /\ page \in [Sockets -> SUBSET Nat] /\ shown \in [Sockets -> SUBSET Nat]
                  /\ missed \in [Sockets -> SUBSET Nat]
                BY DEF NotesBase
            <4>1. CASE Connect(s)
                BY <4>0, <4>1 DEF Connect
            <4>2. CASE SelectPending(s)
                BY <3>1, <4>0, <4>2 DEF SelectPending
            <4>3. CASE SendBatch(s)
                BY <4>0, <4>3 DEF SendBatch
            <4>4. CASE Disconnect(s)
                BY <4>0, <4>4 DEF Disconnect
            <4>. QED  BY <2>5, <4>1, <4>2, <4>3, <4>4
        <3>. QED  BY <3>2, <3>3 DEF NotesBase
    <2>6. ASSUME NEW n \in 0 .. MaxNotes, MarkNotesRead(n)
          PROVE  NotesBase'
        <3>1. /\ read' = [m \in 1 .. Len(read) |-> read[m] \/ n = 0 \/ m <= n]
              /\ UNCHANGED <<post, sock, page, shown, bus, missed>> /\ Len(read) \in Nat
            BY <2>6 DEF MarkNotesRead, NotesBase
        <3>2. \A m \in 1 .. Len(read) : (read[m] \/ n = 0 \/ m <= n) \in BOOLEAN
            OBVIOUS
        <3>3. read' \in Seq(BOOLEAN) /\ DOMAIN read' = DOMAIN read
            BY <3>1, <3>2 DEF NotesBase
        <3>. QED  BY <3>1, <3>3 DEF NotesBase
    <2>. QED  BY <2>1, <2>2, <2>3, <2>4, <2>5, <2>6 DEF NotesNext
<1>. QED  BY <1>1, <1>2, PTL DEF NotesSpec

\* A step of a poster or an instance keeps every promise to a connected socket.
LEMMA PromisesCarried ==
    ASSUME NotesBase, NEW s \in Sockets, NEW n \in Nat \ {0}, sock[s] # "off", Promised(s, n),
           \/ \E i \in Instances : Relay(i) \/ LoseRelay(i) \/ (\E p \in Posters : Store(p, i))
           \/ \E p \in Posters : PushNote(p) \/ AbortPost(p)
    PROVE  Promised(s, n)'
<1>0. At[s] \in Instances /\ bus[At[s]] \in Seq(Nat)
    BY NotificationsConstants DEF NotesBase
<1>1. ASSUME \A q \in Sockets : shown[q] \subseteq shown'[q] /\ missed[q] \subseteq missed'[q],
             OnBus(bus[At[s]], n) => OnBus(bus'[At[s]], n) \/ n \in shown'[s] \cup missed'[s],
             \A p \in Posters : post[p].id = n =>
                 \/ post'[p].id = n \/ OnBus(bus'[At[s]], n) \/ n \in shown'[s] \cup missed'[s]
      PROVE  Promised(s, n)'
    BY <1>1 DEF Promised
<1>2. ASSUME NEW i \in Instances, Relay(i) \/ LoseRelay(i)
      PROVE  Promised(s, n)'
    <2>1. /\ bus[i] \in Seq(Nat) /\ bus[i] # <<>> /\ Head(bus[i]) \in Nat
          /\ bus' = [bus EXCEPT ![i] = Tail(bus[i])] /\ post' = post
        BY <1>2 DEF Relay, LoseRelay, NotesBase
    <2>2. /\ \A q \in Sockets : shown[q] \subseteq shown'[q] /\ missed[q] \subseteq missed'[q]
          /\ At[s] = i => Head(bus[i]) \in shown'[s] \cup missed'[s]
        <3>1. CASE Relay(i)
            <4>1. deliver_local(i, Head(bus[i])) /\ missed' = missed
                BY <3>1 DEF Relay
            <4>. QED  BY <4>1, <2>1, Delivers DEF InHub
        <3>2. CASE LoseRelay(i)
            <4>1. Miss({q \in Sockets : At[q] = i}, Head(bus[i])) /\ shown' = shown
                BY <3>2 DEF LoseRelay
            <4>. QED  BY <4>1, <2>1, Misses
        <3>. QED  BY <1>2, <3>1, <3>2
    <2>3. OnBus(bus[At[s]], n) => OnBus(bus'[At[s]], n) \/ n \in shown'[s] \cup missed'[s]
        <3>1. CASE At[s] # i
            BY <3>1, <2>1, <1>0 DEF NotesBase
        <3>2. CASE At[s] = i
            <4>1. bus'[At[s]] = Tail(bus[i])
                BY <3>2, <2>1, <1>0 DEF NotesBase
            <4>. QED  BY <3>2, <4>1, <2>1, <2>2, BusHeads
        <3>. QED  BY <3>1, <3>2
    <2>. QED  BY <1>1, <2>1, <2>2, <2>3
<1>3. ASSUME NEW i \in Instances, NEW p \in Posters, Store(p, i)
      PROVE  Promised(s, n)'
    <2>1. UNCHANGED <<shown, missed, bus>> /\ post[p] = NoPost /\ \A r \in Posters \ {p} : post'[r] = post[r]
        BY <1>3 DEF Store, NotesBase
    <2>2. post[p].id = 0
        BY <2>1 DEF NoPost
    <2>. QED  BY <1>1, <2>1, <2>2
<1>4. ASSUME NEW p \in Posters, PushNote(p)
      PROVE  Promised(s, n)'
    <2>1. /\ deliver_local(post[p].at, post[p].id) /\ fanout_publish(post[p].at, post[p].id)
          /\ missed' = missed /\ post' = [post EXCEPT ![p] = NoPost]
          /\ post[p].id \in Nat /\ post[p].at \in Instances
        BY <1>4 DEF PushNote, NotesBase
    <2>2. \A q \in Sockets : shown[q] \subseteq shown'[q] /\ (InHub(q) /\ At[q] = post[p].at => post[p].id \in shown'[q])
        BY <2>1, Delivers
    <2>3. /\ \A j \in Instances \ {post[p].at} : OnBus(bus'[j], post[p].id)
          /\ \A j \in Instances : \A m : OnBus(bus[j], m) => OnBus(bus'[j], m)
        BY <2>1, Publishes
    <2>4. \A r \in Posters : post[r].id = n => \/ post'[r].id = n \/ OnBus(bus'[At[s]], n) \/ n \in shown'[s]
        BY <2>1, <2>2, <2>3, <1>0 DEF InHub, NotesBase
    <2>. QED  BY <1>0, <1>1, <2>1, <2>2, <2>3, <2>4
<1>5. ASSUME NEW p \in Posters, AbortPost(p)
      PROVE  Promised(s, n)'
    <2>1. /\ Miss(Sockets, post[p].id) /\ UNCHANGED <<shown, bus>> /\ post' = [post EXCEPT ![p] = NoPost]
          /\ post[p].id \in Nat
        BY <1>5 DEF AbortPost, NotesBase
    <2>2. \A q \in Sockets : missed[q] \subseteq missed'[q] /\ (sock[q] # "off" => post[p].id \in missed'[q])
        BY <2>1, Misses
    <2>3. \A r \in Posters : post[r].id = n => post'[r].id = n \/ n \in missed'[s]
        BY <2>1, <2>2 DEF NotesBase
    <2>. QED  BY <1>1, <2>1, <2>2, <2>3
<1>. QED  BY <1>2, <1>3, <1>4, <1>5

\* Posting and relaying keep what all sockets were promised; the row just stored is held
\* by its poster.
LEMMA PromisesPosted ==
    ASSUME NotesBase, NotesBase', AllPromised,
           \/ \E i \in Instances : Relay(i) \/ LoseRelay(i) \/ (\E p \in Posters : Store(p, i))
           \/ \E p \in Posters : PushNote(p) \/ AbortPost(p)
    PROVE  AllPromised'
<1>1. UNCHANGED <<sock, page>>
    BY DEF Relay, LoseRelay, Store, PushNote, AbortPost
<1>2. ASSUME NEW n \in DOMAIN read', ~read'[n], n \notin DOMAIN read \/ read[n]
      PROVE  \E p \in Posters : post'[p].id = n
    <2>1. read' # read
        BY <1>2
    <2>2. PICK p \in Posters, i \in Instances : Store(p, i)
        BY <2>1 DEF Relay, LoseRelay, PushNote, AbortPost
    <2>3. read' = Append(read, FALSE) /\ post'[p].id = Len(read) + 1
        BY <2>2 DEF Store, NotesBase
    <2>4. n = Len(read) + 1
        BY <2>3, <1>2 DEF NotesBase
    <2>. QED  BY <2>3, <2>4
<1>3. \A n \in DOMAIN read' : n \in Nat \ {0}
    BY DEF NotesBase
<1>4. ASSUME NEW s \in Sockets, NEW n \in DOMAIN read', ~read'[n]
      PROVE  /\ sock'[s] = "serving" => Promised(s, n)'
             /\ sock'[s] = "selected" => n \in page'[s] \/ Promised(s, n)'
    <2>1. CASE n \notin DOMAIN read \/ read[n]
        BY <2>1, <1>2, <1>4 DEF Promised
    <2>2. CASE n \in DOMAIN read /\ ~read[n]
        BY <2>2, <1>1, <1>3, PromisesCarried DEF AllPromised
    <2>. QED  BY <2>1, <2>2
<1>. QED  BY <1>4 DEF AllPromised

\* Connecting, and the unread batch.
LEMMA PromisesServed ==
    ASSUME NotesBase, AllPromised, NEW s \in Sockets,
           Connect(s) \/ SelectPending(s) \/ SendBatch(s) \/ Disconnect(s)
    PROVE  AllPromised'
<1>1. /\ UNCHANGED <<read, post, bus>>
      /\ \A q \in Sockets \ {s} : /\ sock'[q] = sock[q] /\ page'[q] = page[q]
                                  /\ shown'[q] = shown[q] /\ missed'[q] = missed[q]
    BY DEF Connect, SelectPending, SendBatch, Disconnect, NotesBase
<1>2. ASSUME NEW q \in Sockets \ {s}, NEW n \in DOMAIN read, ~read[n]
      PROVE  /\ sock'[q] = "serving" => Promised(q, n)'
             /\ sock'[q] = "selected" => n \in page'[q] \/ Promised(q, n)'
    BY <1>1, <1>2 DEF AllPromised, Promised
<1>3. ASSUME NEW n \in DOMAIN read, ~read[n]
      PROVE  /\ sock'[s] = "serving" => Promised(s, n)'
             /\ sock'[s] = "selected" => n \in page'[s] \/ Promised(s, n)'
    <2>1. CASE Connect(s) \/ Disconnect(s)
        BY <2>1 DEF Connect, Disconnect, NotesBase
    <2>2. CASE SelectPending(s)
        <3>1. n \in Unread
            BY <1>3 DEF Unread
        <3>2. \/ sock'[s] = "selected" /\ page'[s] = Newest(Unread) /\ missed'[s] = missed[s] \cup (Unread \ Newest(Unread))
              \/ sock'[s] = "serving" /\ missed'[s] = missed[s] \cup Unread
            BY <2>2 DEF SelectPending, NotesBase
        <3>. QED  BY <3>1, <3>2 DEF Promised
    <2>3. CASE SendBatch(s)
        <3>1. sock[s] = "selected" /\ sock'[s] = "serving" /\ shown'[s] = shown[s] \cup page[s] /\ missed' = missed
            BY <2>3 DEF SendBatch, NotesBase
        <3>2. n \in page[s] \/ Promised(s, n)
            BY <3>1, <1>3 DEF AllPromised
        <3>. QED  BY <1>1, <3>1, <3>2 DEF Promised
    <2>. QED  BY <2>1, <2>2, <2>3
<1>. QED  BY <1>1, <1>2, <1>3 DEF AllPromised

\* UnreadShown: a served socket has been sent every unread notification, except one on
\* its way to it, one lost between instances, and what its connect did not select.
THEOREM UnreadIsShown == NotesSpec => []UnreadShown
<1>1. NotesInit => AllPromised
    BY DEF NotesInit, AllPromised
<1>2. NotesBase /\ NotesBase' /\ AllPromised /\ [NotesNext]_noteVars => AllPromised'
    <2>. SUFFICES ASSUME NotesBase, NotesBase', AllPromised, [NotesNext]_noteVars PROVE AllPromised'
        OBVIOUS
    <2>1. CASE UNCHANGED noteVars
        BY <2>1 DEF noteVars, AllPromised, Promised
    <2>2. ASSUME NEW n \in 0 .. MaxNotes, MarkNotesRead(n)
          PROVE  AllPromised'
        <3>1. UNCHANGED <<post, sock, page, shown, bus, missed>>
            BY <2>2 DEF MarkNotesRead
        <3>2. \A m \in DOMAIN read' : m \in DOMAIN read /\ (~read'[m] => ~read[m])
            BY <2>2 DEF MarkNotesRead
        <3>. QED  BY <3>1, <3>2 DEF AllPromised, Promised
    <2>3. ASSUME NEW s \in Sockets, Connect(s) \/ SelectPending(s) \/ SendBatch(s) \/ Disconnect(s)
          PROVE  AllPromised'
        BY <2>3, PromisesServed
    <2>. QED  BY <2>1, <2>2, <2>3, PromisesPosted DEF NotesNext
<1>3. AllPromised => UnreadShown
    BY DEF AllPromised, Promised, OnBus, UnreadShown
<1>. QED  BY <1>1, <1>2, <1>3, NotesInvariance, PTL DEF NotesSpec


\* No row, batch, frame or promise names a notification that has not been stored, and
\* there are no more of them than the bound.
NotesKnown ==
    /\ Len(read) <= MaxNotes
    /\ \A p \in Posters : post[p] = NoPost \/ (post[p].pc = "push" /\ post[p].id \in DOMAIN read)
    /\ \A s \in Sockets : page[s] \cup shown[s] \cup missed[s] \subseteq DOMAIN read
    /\ \A i \in Instances : \A n : OnBus(bus[i], n) => n \in DOMAIN read

\* A step that lengthens or keeps the table, and hands on stored notifications.
LEMMA KnownHandedOn ==
    ASSUME NotesBase, NotesKnown, DOMAIN read \subseteq DOMAIN read', Len(read') <= MaxNotes,
           \A p \in Posters : \/ post'[p] \in {post[p], NoPost}
                             \/ (post'[p].pc = "push" /\ post'[p].id \in DOMAIN read'),
           \A s \in Sockets : page'[s] \cup shown'[s] \cup missed'[s]
                                \subseteq page[s] \cup shown[s] \cup missed[s] \cup DOMAIN read,
           \A i \in Instances : \A n : OnBus(bus'[i], n) => OnBus(bus[i], n) \/ n \in DOMAIN read
    PROVE  NotesKnown'
<1>1. \A p \in Posters : post'[p] = NoPost \/ (post'[p].pc = "push" /\ post'[p].id \in DOMAIN read')
    BY DEF NotesKnown
<1>2. \A s \in Sockets : page'[s] \cup shown'[s] \cup missed'[s] \subseteq DOMAIN read'
    BY DEF NotesKnown
<1>3. \A i \in Instances : \A n : OnBus(bus'[i], n) => n \in DOMAIN read'
    BY DEF NotesKnown
<1>. QED  BY <1>1, <1>2, <1>3 DEF NotesKnown, OnBus

\* NotesTypeOK: the types of notifications; everything that names one names a stored one.
THEOREM NotesTypes == NotesSpec => []NotesTypeOK
<1>1. NotesInit => NotesKnown
    BY NotificationsConstants DEF NotesInit, NotesKnown, OnBus
<1>2. NotesBase /\ NotesKnown /\ [NotesNext]_noteVars => NotesKnown'
    <2>. SUFFICES ASSUME NotesBase, NotesKnown, [NotesNext]_noteVars PROVE NotesKnown'
        OBVIOUS
    <2>1. CASE UNCHANGED noteVars
        BY <2>1 DEF noteVars, NotesKnown, OnBus
    <2>2. ASSUME NEW i \in Instances, Relay(i) \/ LoseRelay(i)
          PROVE  NotesKnown'
        <3>0. bus[i] \in Seq(Nat) /\ bus[i] # <<>> /\ bus' = [bus EXCEPT ![i] = Tail(@)] /\ UNCHANGED <<read, post, page>>
            BY <2>2 DEF Relay, LoseRelay, NotesBase
        <3>1. Head(bus[i]) \in DOMAIN read
            BY <3>0 DEF NotesKnown, OnBus
        <3>2. \A j \in Instances : \A n : OnBus(bus'[j], n) => OnBus(bus[j], n)
            <4>1. ASSUME NEW n, OnBus(Tail(bus[i]), n)
                  PROVE  OnBus(bus[i], n)
                <5>1. PICK k \in DOMAIN Tail(bus[i]) : Tail(bus[i])[k] = n
                    BY <4>1 DEF OnBus
                <5>2. k + 1 \in DOMAIN bus[i] /\ bus[i][k + 1] = n
                    BY <3>0, <5>1
                <5>. QED  BY <5>2 DEF OnBus
            <4>2. \A j \in Instances : bus'[j] = bus[j] \/ (j = i /\ bus'[j] = Tail(bus[i]))
                BY <3>0 DEF NotesBase
            <4>. QED  BY <4>1, <4>2
        <3>3. \A s \in Sockets : shown'[s] \cup missed'[s] \subseteq shown[s] \cup missed[s] \cup {Head(bus[i])}
            BY <2>2 DEF Relay, LoseRelay, deliver_local, Miss
        <3>. QED  BY <3>0, <3>1, <3>2, <3>3, KnownHandedOn DEF NotesKnown
    <2>3. ASSUME NEW i \in Instances, NEW p \in Posters, Store(p, i)
          PROVE  NotesKnown'
        <3>1. /\ DOMAIN read \subseteq DOMAIN read' /\ Len(read) + 1 \in DOMAIN read'
              /\ Len(read') <= MaxNotes
            BY <2>3, NotificationsConstants DEF Store, NotesBase
        <3>2. /\ UNCHANGED <<sock, page, shown, bus, missed>>
              /\ \A q \in Posters : post'[q] = post[q] \/ (post'[q].pc = "push" /\ post'[q].id = Len(read) + 1)
            BY <2>3 DEF Store, NotesBase
        <3>3. \A q \in Posters : \/ post'[q] \in {post[q], NoPost}
                               \/ (post'[q].pc = "push" /\ post'[q].id \in DOMAIN read')
            BY <3>1, <3>2
        <3>4. \A s \in Sockets : page'[s] \cup shown'[s] \cup missed'[s]
                                 \subseteq page[s] \cup shown[s] \cup missed[s] \cup DOMAIN read
            BY <3>2
        <3>5. \A j \in Instances : \A n : OnBus(bus'[j], n) => OnBus(bus[j], n) \/ n \in DOMAIN read
            BY <3>2
        <3>. QED  BY <3>1, <3>3, <3>4, <3>5, KnownHandedOn
    <2>4. ASSUME NEW p \in Posters, PushNote(p) \/ AbortPost(p)
          PROVE  NotesKnown'
        <3>0. post[p].pc = "push" /\ post' = [post EXCEPT ![p] = NoPost] /\ UNCHANGED <<read, page>>
            BY <2>4 DEF PushNote, AbortPost
        <3>1. post[p].id \in DOMAIN read /\ post[p].id \in Nat
            BY <3>0 DEF NotesBase
        <3>2. \A s \in Sockets : shown'[s] \cup missed'[s] \subseteq shown[s] \cup missed[s] \cup {post[p].id}
            BY <2>4 DEF PushNote, AbortPost, deliver_local, Miss
        <3>3. \A j \in Instances : \A n : OnBus(bus'[j], n) => OnBus(bus[j], n) \/ n = post[p].id
            <4>1. ASSUME NEW j \in Instances, NEW n, OnBus(Append(bus[j], post[p].id), n)
                  PROVE  OnBus(bus[j], n) \/ n = post[p].id
                <5>1. PICK k \in DOMAIN Append(bus[j], post[p].id) : Append(bus[j], post[p].id)[k] = n
                    BY <4>1 DEF OnBus
                <5>2. bus[j] \in Seq(Nat)
                    BY DEF NotesBase
                <5>3. n = post[p].id \/ (k \in DOMAIN bus[j] /\ bus[j][k] = n)
                    BY <3>1, <5>1, <5>2
                <5>. QED  BY <5>3 DEF OnBus
            <4>2. \A j \in Instances : bus'[j] = bus[j] \/ bus'[j] = Append(bus[j], post[p].id)
                BY <2>4 DEF PushNote, AbortPost, fanout_publish
            <4>. QED  BY <4>1, <4>2
        <3>4. \A q \in Posters : post'[q] \in {post[q], NoPost}
            BY <3>0 DEF NotesBase
        <3>. QED  BY <3>0, <3>1, <3>2, <3>3, <3>4, KnownHandedOn DEF NotesKnown
    <2>5. ASSUME NEW s \in Sockets, Connect(s) \/ SelectPending(s) \/ SendBatch(s) \/ Disconnect(s)
          PROVE  NotesKnown'
        <3>1. UNCHANGED <<read, post, bus>> /\ Unread \subseteq DOMAIN read /\ Newest(Unread) \subseteq DOMAIN read
            BY <2>5 DEF Connect, SelectPending, SendBatch, Disconnect, Unread, Newest
        <3>2. ASSUME NEW c \in Sockets
              PROVE  page'[c] \cup shown'[c] \cup missed'[c]
                         \subseteq page[c] \cup shown[c] \cup missed[c] \cup DOMAIN read
            BY <2>5, <3>1 DEF Connect, SelectPending, SendBatch, Disconnect, NotesBase
        <3>. QED  BY <3>1, <3>2, KnownHandedOn DEF NotesKnown
    <2>6. ASSUME NEW n \in 0 .. MaxNotes, MarkNotesRead(n)
          PROVE  NotesKnown'
        <3>1. /\ read' = [m \in 1 .. Len(read) |-> read[m] \/ n = 0 \/ m <= n]
              /\ UNCHANGED <<post, sock, page, shown, bus, missed>> /\ Len(read) \in Nat
            BY <2>6 DEF MarkNotesRead, NotesBase
        <3>2. DOMAIN read' = DOMAIN read /\ Len(read') = Len(read)
            BY <3>1 DEF NotesBase
        <3>. QED  BY <3>1, <3>2, KnownHandedOn DEF NotesKnown
    <2>. QED  BY <2>1, <2>2, <2>3, <2>4, <2>5, <2>6 DEF NotesNext
<1>3. NotesBase /\ NotesKnown => NotesTypeOK
    <2>. SUFFICES ASSUME NotesBase, NotesKnown PROVE NotesTypeOK
        OBVIOUS
    <2>0. /\ NoPost.pc = "idle" /\ NoPost.at \in Instances /\ NoPost.id = 0
          /\ NoPost \in [pc : {"idle", "push"}, at : Instances, id : {0}]
        BY NotificationsConstants DEF NoPost
    <2>1. Len(read) \in Nat /\ DOMAIN read = 1 .. Len(read) /\ DOMAIN read \subseteq NoteIds
        BY NotificationsConstants DEF NotesBase, NotesKnown, NoteIds
    <2>2. post \in [Posters -> [pc : {"idle", "push"}, at : Instances, id : 0 .. Len(read)]]
        <3>1. ASSUME NEW p \in Posters
              PROVE  post[p] \in [pc : {"idle", "push"}, at : Instances, id : 0 .. Len(read)]
            <4>1. post[p] \in PostType
                BY DEF NotesBase
            <4>2. post[p].at \in Instances /\ post[p].id \in 0 .. Len(read)
                BY <2>0, <2>1 DEF NotesBase, NotesKnown
            <4>. QED  BY <4>1, <4>2 DEF PostType
        <3>. QED  BY <3>1 DEF NotesBase
    <2>3. ASSUME NEW i \in Instances
          PROVE  bus[i] \in Seq(DOMAIN read)
        <3>1. bus[i] \in Seq(Nat) /\ \A k \in DOMAIN bus[i] : bus[i][k] \in DOMAIN read
            BY DEF NotesBase, NotesKnown, OnBus
        <3>. QED  BY <3>1
    <2>. QED  BY <2>1, <2>2, <2>3 DEF NotesBase, NotesKnown, NotesTypeOK
<1>. QED  BY <1>1, <1>2, <1>3, NotesInvariance, PTL DEF NotesSpec

-----------------------------------------------------------------------------
(* The services side by side *)

\* CatalogTypeOK: the types of the catalog.
THEOREM CatalogHasTypes == CatalogSpec => []CatalogTypeOK
<1>1. CatalogBase => CatalogTypeOK
    <2>1. NoFetch.game \in Titles
        BY CatalogConstants DEF NoFetch
    <2>. QED  BY <2>1 DEF CatalogBase, CatalogTypes, CatalogTypeOK, ScanType, FetchType, ManifestType
<1>. QED  BY <1>1, CatalogInvariance, PTL

\* One component moves at a time and the others stand still, so that a behaviour of all is
\* a behaviour of each: what is proved of the components' own specifications holds of it.
THEOREM ServicesSideBySide ==
    Spec => /\ NotesSpec /\ PushSpec /\ AccountsSpec
            /\ CatalogSpec /\ SavesSpec /\ BoardSpec
<1>1. Init => /\ NotesInit /\ PushInit /\ AccountsInit
              /\ CatalogInit /\ SavesInit /\ BoardInit
    BY DEF Init
<1>2. [Next]_vars =>
          /\ [NotesNext]_noteVars /\ [PushNext]_pushVars /\ [AccountsNext]_accountVars
          /\ [CatalogNext]_catalogVars /\ [SavesNext]_saveVars /\ [BoardNext]_boardVars
    BY Zenon DEF Next, vars
<1>. QED  BY <1>1, <1>2, PTL DEF Spec, NotesSpec, PushSpec, AccountsSpec, CatalogSpec, SavesSpec, BoardSpec

\* TypeOK, the types of all the services.
THEOREM ServicesTypes == Spec => []TypeOK
<1>1. NotesTypeOK /\ PushTypeOK /\ AccountsTypeOK /\ CatalogTypeOK /\ SavesTypeOK /\ BoardTypeOK => TypeOK
    BY DEF TypeOK
<1>. QED  BY <1>1, ServicesSideBySide, NotesTypes, PushTypes, AccountsTypes, CatalogHasTypes, SavesTypes,
             BoardTypes, PTL
=============================================================================
