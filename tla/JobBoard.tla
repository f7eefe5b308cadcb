------------------------------ MODULE JobBoard ------------------------------
(* What the job queue promises those who post work on it, without attempts,    *)
(* heartbeats, cancel flags or the threads' own state: a board of cards, each  *)
(* waiting, held by one worker, or settled.  JobQueue implements it.           *)
CONSTANTS Jobs, Keys, NoKey, Workers, NoWorker

VARIABLE board      \* each job's card: how it stands, its dedupe key, who holds it

Card(is, k, w) == [is |-> is, key |-> k, by |-> w]
Waiting(j) == board[j].is = "waiting"
Held(j) == board[j].is = "held"

\* Another waiting card stands for j's key.
Twin(j) ==
    /\ board[j].key # NoKey
    /\ \E i \in Jobs \ {j} : Waiting(i) /\ board[i].key = board[j].key

Turns(j, is, w) == board' = [board EXCEPT ![j] = Card(is, board[j].key, w)]

BoardInit == board = [j \in Jobs |-> Card("blank", NoKey, NoWorker)]

\* Posting for a key that has a waiting card adds none.
Post(j, k) ==
    /\ board[j].is = "blank"
    /\ k = NoKey \/ ~\E i \in Jobs : Waiting(i) /\ board[i].key = k
    /\ board' = [board EXCEPT ![j] = Card("waiting", k, NoWorker)]

\* One worker takes a waiting card, and no other has it until it is put back.
Take(j, w) == Waiting(j) /\ Turns(j, "held", w)

\* A run ends for good, or the user takes a waiting card down.
Settle(j) ==
    /\ Held(j)
    /\ \E is \in {"done", "givenUp", "cancelled"} : Turns(j, is, NoWorker)

Withdraw(j) == Waiting(j) /\ Turns(j, "cancelled", NoWorker)

\* Held cards come back together, by a retry or because their holders went silent: each
\* waits again, or is cancelled when another that waits stands for its key.
PutBack(S) ==
    /\ S # {}
    /\ \A j \in S : Held(j)
    /\ \A i, j \in S : i # j /\ board[i].key # NoKey /\ board[i].key = board[j].key => Twin(i)
    /\ board' = [j \in Jobs |->
                   IF j \in S
                   THEN Card(IF Twin(j) THEN "cancelled" ELSE "waiting", board[j].key, NoWorker)
                   ELSE board[j]]

\* Only a card that was given up is ever posted again.
Revive(j) == board[j].is = "givenUp" /\ ~Twin(j) /\ Turns(j, "waiting", NoWorker)

Move ==
    \/ \E j \in Jobs : \/ \E k \in Keys \cup {NoKey} : Post(j, k)
                       \/ \E w \in Workers : Take(j, w)
                       \/ Settle(j) \/ Withdraw(j) \/ Revive(j)
    \/ \E S \in SUBSET {j \in Jobs : Held(j)} : PutBack(S)

\* A step of the board moves a card at least.
BoardNext == board' # board /\ Move

BoardSpec == BoardInit /\ [][BoardNext]_board
=============================================================================
