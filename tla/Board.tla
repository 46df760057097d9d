------------------------------- MODULE Board -------------------------------
(***************************************************************************)
(* The game-request board (requests_app.rs, admin_extra.rs): requests,     *)
(* votes, ratings and the panel's deletion, a statement per step.  A       *)
(* request carries its number of votes, counted up beside the vote rows,   *)
(* which are unique per request and user.                                  *)
(***************************************************************************)
EXTENDS Naturals, FiniteSets

CONSTANTS
    Voters,  \* signed-in users
    Games,   \* IGDB ids asked for
    Asks,    \* game_requests rows, by id
    Desks,   \* handlers that can be in flight
    Blank,   \* no user, game or row
    MaxVisits \* bound on requests to the board, for model checking

ASSUME BoardConstants == Blank \notin Voters \cup Games \cup Asks /\ MaxVisits \in Nat

VARIABLES
    ask,      \* game_requests: the game, the requester and the votes of each row
    spent,    \* ids used
    votes,    \* request_votes: <<row, user>>
    stars,    \* request_ratings: <<row, user>>
    desk,     \* handlers in flight
    visits,   \* requests so far
    twice,    \* history: requests whose requester's own vote row was not written by the request
    cleared   \* history: requests whose votes a deletion has removed

boardVars == <<ask, spent, votes, stars, desk, visits, twice, cleared>>

NoAsk == [game |-> Blank, by |-> Blank, n |-> 0]
NoDesk == [pc |-> "idle", user |-> Blank, game |-> Blank, row |-> Blank]

BoardTypeOK ==
    /\ ask \in [Asks -> [game : Games \cup {Blank}, by : Voters \cup {Blank}, n : 0 .. MaxVisits]]
    /\ visits \in 0 .. MaxVisits
    /\ spent \cup twice \cup cleared \subseteq Asks
    /\ votes \cup stars \subseteq Asks \X Voters
    /\ desk \in [Desks -> [pc : {"idle", "find", "insert", "own", "vote", "count", "exists", "rate",
                                 "stars", "votes", "row"},
                           user : Voters \cup {Blank}, game : Games \cup {Blank}, row : Asks \cup {Blank}]]

BoardInit ==
    /\ ask = [r \in Asks |-> NoAsk]
    /\ spent = {} /\ votes = {} /\ stars = {} /\ twice = {} /\ cleared = {}
    /\ desk = [d \in Desks |-> NoDesk]
    /\ visits = 0

-----------------------------------------------------------------------------
Tables == <<ask, spent, votes, stars, twice, cleared>>
Exists(r) == ask[r].game # Blank
Sit(d, job) ==
    /\ desk[d] = NoDesk /\ visits < MaxVisits
    /\ visits' = visits + 1
    /\ desk' = [desk EXCEPT ![d] = job]
Onward(d, pc) == desk' = [desk EXCEPT ![d].pc = pc] /\ UNCHANGED visits
Rise(d) == desk' = [desk EXCEPT ![d] = NoDesk] /\ UNCHANGED visits

(* api_create_request, add_vote *)

Ask(d, u, g) == Sit(d, [NoDesk EXCEPT !.pc = "find", !.user = u, !.game = g]) /\ UNCHANGED Tables

\* A game on the board already gets a vote instead.
FindAsk(d) ==
    /\ desk[d].pc = "find"
    /\ LET same == {r \in Asks : ask[r].game = desk[d].game} IN
         \/ same = {} /\ Onward(d, "insert")
         \/ /\ \E r \in same : desk' = [desk EXCEPT ![d].pc = "vote", ![d].row = r]
            /\ UNCHANGED visits
    /\ UNCHANGED Tables

\* A game is on the board once (a unique key), and its row starts at one vote, the
\* requester's ...
InsertAsk(d, r) ==
    /\ desk[d].pc = "insert" /\ r \notin spent
    /\ \A q \in Asks : ask[q].game # desk[d].game
    /\ ask' = [ask EXCEPT ![r] = [game |-> desk[d].game, by |-> desk[d].user, n |-> 1]]
    /\ spent' = spent \cup {r}
    /\ desk' = [desk EXCEPT ![d].pc = "own", ![d].row = r]
    /\ UNCHANGED <<visits, votes, stars, twice, cleared>>

\* ... whose vote row comes next: ignored if it is there by now, and errors are ignored too.
OwnVote(d) ==
    LET x == <<desk[d].row, desk[d].user>> IN
    /\ desk[d].pc = "own"
    /\ \/ votes' = votes \cup {x} /\ twice' = IF x \in votes THEN twice \cup {desk[d].row} ELSE twice
       \/ UNCHANGED votes /\ twice' = twice \cup {desk[d].row}
    /\ Rise(d)
    /\ UNCHANGED <<ask, spent, stars, cleared>>

\* By id, which may be gone.
Vote(d, u, r) ==
    /\ r \in spent
    /\ Sit(d, [NoDesk EXCEPT !.pc = "vote", !.user = u, !.row = r])
    /\ UNCHANGED Tables

Voted(d, added) ==
    LET x == <<desk[d].row, desk[d].user>> IN
    /\ desk[d].pc = "vote"
    /\ votes' = votes \cup {x}
    /\ IF added THEN Onward(d, "count") ELSE Rise(d)
    /\ UNCHANGED <<ask, spent, stars, twice, cleared>>

\* Faulty variant: a vote is counted whether or not its row is new.
InsertVoteAlways(d) == Voted(d, TRUE)

\* INSERT IGNORE: only a new row is counted.
InsertVote(d) == Voted(d, <<desk[d].row, desk[d].user>> \notin votes)

\* votes = votes + 1, unless the request is gone or the statement fails.
CountVote(d) ==
    LET r == desk[d].row IN
    /\ desk[d].pc = "count"
    /\ ask' = [ask EXCEPT ![r].n = IF Exists(r) THEN @ + 1 ELSE @] \/ UNCHANGED ask
    /\ Rise(d)
    /\ UNCHANGED <<spent, votes, stars, twice, cleared>>

-----------------------------------------------------------------------------
(* api_rate, delete_game_request *)

Rate(d, u, r) ==
    /\ r \in spent
    /\ Sit(d, [NoDesk EXCEPT !.pc = "exists", !.user = u, !.row = r])
    /\ UNCHANGED Tables
CheckExists(d) ==
    /\ desk[d].pc = "exists"
    /\ IF Exists(desk[d].row) THEN Onward(d, "rate") ELSE Rise(d)
    /\ UNCHANGED Tables
WriteStars(d) ==
    /\ desk[d].pc = "rate"
    /\ stars' = stars \cup {<<desk[d].row, desk[d].user>>}
    /\ Rise(d)
    /\ UNCHANGED <<ask, spent, votes, twice, cleared>>

\* The panel deletes ratings, votes and the request; only the last may end in an error.
DeleteAsk(d, r) ==
    /\ Exists(r)
    /\ Sit(d, [NoDesk EXCEPT !.pc = "stars", !.row = r])
    /\ UNCHANGED Tables
DeleteStars(d) ==
    /\ desk[d].pc = "stars"
    /\ stars' = {x \in stars : x[1] # desk[d].row} \/ UNCHANGED stars
    /\ Onward(d, "votes")
    /\ UNCHANGED <<ask, spent, votes, twice, cleared>>
DeleteVotes(d) ==
    /\ desk[d].pc = "votes"
    /\ \/ votes' = {x \in votes : x[1] # desk[d].row} /\ cleared' = cleared \cup {desk[d].row}
       \/ UNCHANGED <<votes, cleared>>
    /\ Onward(d, "row")
    /\ UNCHANGED <<ask, spent, stars, twice>>
DeleteRow(d) ==
    /\ desk[d].pc = "row"
    /\ ask' = [ask EXCEPT ![desk[d].row] = NoAsk] \/ UNCHANGED ask
    /\ Rise(d)
    /\ UNCHANGED <<spent, votes, stars, twice, cleared>>

\* A lookup or a write that fails, on the unique key among others, ends the request.
AskFails(d) ==
    /\ desk[d].pc \in {"find", "insert", "vote", "exists", "rate"}
    /\ Rise(d)
    /\ UNCHANGED Tables

BoardNext ==
    \E d \in Desks :
        \/ AskFails(d) \/ FindAsk(d) \/ OwnVote(d) \/ InsertVote(d) \/ CountVote(d) \/ CheckExists(d) \/ WriteStars(d)
        \/ DeleteStars(d) \/ DeleteVotes(d) \/ DeleteRow(d)
        \/ \E u \in Voters, g \in Games : Ask(d, u, g)
        \/ \E u \in Voters, r \in Asks : Vote(d, u, r) \/ Rate(d, u, r)
        \/ \E r \in Asks : InsertAsk(d, r) \/ DeleteAsk(d, r)

BoardSpec == BoardInit /\ [][BoardNext]_boardVars

-----------------------------------------------------------------------------
\* A request never shows more votes than it has voters, counting the requester's whose row
\* is still to be written.  Two cases go beyond, by one vote and by what a voter adds again:
\* a requester who votes between the two statements of the request, and a deletion that
\* removed the votes and then failed.
VotesCounted ==
    \A r \in Asks \ cleared :
        Exists(r) =>
          ask[r].n + Cardinality({d \in Desks : desk[d].pc = "count" /\ desk[d].row = r})
            <= Cardinality({x \in votes : x[1] = r})
               + Cardinality({d \in Desks : desk[d].pc = "own" /\ desk[d].row = r})
               + (IF r \in twice THEN 1 ELSE 0)

=============================================================================
