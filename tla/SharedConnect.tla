---------------------------- MODULE SharedConnect ----------------------------
(***************************************************************************)
(* What the SSH tunnel promises to the sockets that ask it for a session,  *)
(* with no lock, no counter and no error bookkeeping: callers share one    *)
(* connect attempt and its outcome.                                        *)
(*                                                                         *)
(*   - at most one caller dials at a time, and only when no session is up; *)
(*   - a failed attempt is told to every caller that was asking while it   *)
(*     ran, and a caller that was told of a failure does not dial again as *)
(*     long as the link stays down: it is refused with that failure;       *)
(*   - a caller is served only with a session that is up when it is        *)
(*     served, or with the one it dialled itself.                          *)
(***************************************************************************)
CONSTANTS Callers,      \* the sockets that ask for a session, each once
          NoCaller      \* not a caller: "no failure was told"

VARIABLES call,   \* [Callers -> "idle", "asking", "dialing", "served", "refused", "gone"]
          told,   \* the attempt (its dialler) whose failure an asking caller
                  \* was told of, or a refused one is refused with
          link    \* "down": no session, "up": an open one, "lost": a closed one

vars == <<call, told, link>>

Dialing == {c \in Callers : call[c] = "dialing"}

TypeOK == /\ call \in [Callers -> {"idle", "asking", "dialing", "served", "refused", "gone"}]
          /\ told \in [Callers -> Callers \cup {NoCaller}]
          /\ link \in {"down", "up", "lost"}

Init == /\ call = [c \in Callers |-> "idle"]
        /\ told = [c \in Callers |-> NoCaller]
        /\ link = "down"

Ask(c) == /\ call[c] = "idle"
          /\ call' = [call EXCEPT ![c] = "asking"]
          /\ UNCHANGED <<told, link>>

(* Reconnecting starts by forgetting the lost session. *)
Dial(c) == /\ call[c] = "asking"
           /\ Dialing = {}
           /\ link # "up"
           /\ link = "down" => told[c] = NoCaller
           /\ call' = [call EXCEPT ![c] = "dialing"]
           /\ link' = "down"
           /\ UNCHANGED told

(* The session may already be lost when it is handed over. *)
DialSucceeds(c) == /\ call[c] = "dialing"
                   /\ call' = [call EXCEPT ![c] = "served"]
                   /\ link' \in {"up", "lost"}
                   /\ told' = [told EXCEPT ![c] = NoCaller]

DialFails(c) == /\ call[c] = "dialing"
                /\ call' = [call EXCEPT ![c] = "refused"]
                /\ told' = [d \in Callers |-> IF call[d] \in {"asking", "dialing"} THEN c ELSE told[d]]
                /\ UNCHANGED link

Join(c) == /\ call[c] = "asking"
           /\ link = "up"
           /\ call' = [call EXCEPT ![c] = "served"]
           /\ told' = [told EXCEPT ![c] = NoCaller]
           /\ UNCHANGED link

Refuse(c) == /\ call[c] = "asking"
             /\ Dialing = {}
             /\ link = "down"
             /\ told[c] # NoCaller
             /\ call' = [call EXCEPT ![c] = "refused"]
             /\ UNCHANGED <<told, link>>

(* Shutting the tunnel down abandons callers wherever they wait. *)
Abandon(c) == /\ call[c] \in {"idle", "asking", "dialing"}
              /\ call' = [call EXCEPT ![c] = "gone"]
              /\ told' = [told EXCEPT ![c] = NoCaller]
              /\ UNCHANGED link

Lose == /\ link = "up"
        /\ link' = "lost"
        /\ UNCHANGED <<call, told>>

(* Shutting the tunnel down lets go of its session. *)
LetGo == /\ Dialing = {}
         /\ link # "down"
         /\ link' = "down"
         /\ UNCHANGED <<call, told>>

Next == \/ \E c \in Callers :
             \/ Ask(c) \/ Dial(c) \/ DialSucceeds(c) \/ DialFails(c)
             \/ Join(c) \/ Refuse(c) \/ Abandon(c)
        \/ Lose
        \/ LetGo

Spec == Init /\ [][Next]_vars
=============================================================================
