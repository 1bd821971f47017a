------------------------------- MODULE Player -------------------------------
(***************************************************************************)
(* What an undisturbed stream promises its listener: the tasks get their   *)
(* turn one at a time and in order, a song sounds only in its turn, and a  *)
(* turn ends when the whole song was heard.                                *)
(***************************************************************************)
EXTENDS Naturals

CONSTANTS
    Tasks,     \* how many tasks the play list hands out
    Length,    \* chunks in a song
    Lasting    \* tasks that are live streams: nobody promises their end

VARIABLES
    turn,    \* the task whose turn it is, 0 for none
    last,    \* the last task that had its turn
    heard    \* chunks heard of every task

playerVars == <<turn, last, heard>>

PlayerInit ==
    /\ turn = 0
    /\ last = 0
    /\ heard = [i \in 1 .. Tasks |-> 0]

Begin ==
    /\ turn = 0
    /\ last < Tasks
    /\ turn' = last + 1
    /\ UNCHANGED <<last, heard>>

Hear ==
    /\ turn # 0
    /\ heard[turn] < Length
    /\ heard' = [heard EXCEPT ![turn] = @ + 1]
    /\ UNCHANGED <<turn, last>>

End ==
    /\ turn # 0
    /\ heard[turn] = Length
    /\ last' = turn
    /\ turn' = 0
    /\ UNCHANGED heard

PlayerNext == Begin \/ Hear \/ End

PlayerSpec == PlayerInit /\ [][PlayerNext]_playerVars

(* As long as there is a file to play, or a next task to begin, it goes on. *)
FairPlayerSpec == PlayerSpec /\ WF_playerVars(PlayerNext /\ turn \notin Lasting)
=============================================================================
