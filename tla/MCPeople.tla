------------------------------ MODULE MCPeople ------------------------------
(***************************************************************************)
(* Friendship and SelfService for TLC, in one run.  They share no state and*)
(* every property is about the variables of one of them, so focus picks the*)
(* one that moves.  Handlers are interchangeable.  In the focus "friends"  *)
(* two accounts do all they can to each other.  In the focus "sender" one  *)
(* account asks the others, of which there are enough to exceed the cap.   *)
(* One of them may ask for a friend in common with the sender, and have    *)
(* it.  Invites end by an answer or by expiry; nobody blocks or ignores.   *)
(***************************************************************************)
EXTENDS Friendship, SelfService, TLC

CONSTANTS Focus, Sender, Friend, Choosy
ASSUME PeopleConstants == {Sender, Friend, Choosy} \subseteq Users /\ Sender # Friend
VARIABLE focus

Symmetry == Permutations(Clerks) \cup Permutations(Requests)

Two == {Sender, Friend}
FriendsNext ==
    \/ \E r \in Requests : Handler(r)
    \/ \E r \in Requests, a, b \in Two : Ask(r, a, b) \/ Ignore(r, a, b) \/ Block(r, a, b)
    \/ \E a, b \in Two : Accept(a, b) \/ Remove(a, b) \/ SetIgnore(a, b)
    \/ \E k \in {"block", "ignore"}, a, b \in Two : Unbar(k, a, b)
    \/ \E a \in Two, p \in Policies : SetPolicy(a, p)
    \/ Expire(Two)
    \/ List

SenderNext ==
    \/ \E r \in Requests : Handler(r) \/ Ask(r, Friend, Choosy)
    \/ \E r \in Requests, b \in Users : Ask(r, Sender, b)
    \/ \E a, b \in Users : Accept(a, b)
    \/ \E b \in Users \ {Sender} : Expire({Sender, b})
    \/ SetPolicy(Choosy, "mutual")
    \/ List

\* Signup requests and reset links together are three at most.
Few == Cardinality(filed') + Cardinality({l \in Links : issued'[l] # 0}) <= 3

MCInit == focus \in Focus /\ Init /\ SelfInit
MCNext ==
    /\ UNCHANGED focus
    /\ CASE focus = "friends" -> FriendsNext
         [] focus = "sender" -> SenderNext
         [] OTHER -> UNCHANGED vars
    /\ IF focus = "self" THEN SelfNext /\ Few ELSE UNCHANGED selfVars
MCSpec == MCInit /\ [][MCNext]_<<vars, selfVars, focus>>

\* The variables of both keep their types.
MCTypeOK == TypeOK /\ SelfTypeOK
=============================================================================
