-------------------------------- MODULE Feed --------------------------------
(***************************************************************************)
(* What the chat promises of one conversation, without locks, goroutines   *)
(* and Redis: messages are said one after the other and stay as they were  *)
(* said, only what was said is acknowledged, and a listener hears messages *)
(* in the order in which they were said, each once.                        *)
(***************************************************************************)
EXTENDS Naturals, Sequences

CONSTANT Messages

VARIABLES
  said,     \* the history of the conversation
  acked,    \* messages whose sender was told that they are sent
  heard     \* what a listener has been given

vars == <<said, acked, heard>>

Said == {said[i] : i \in 1..Len(said)}

Init == said = <<>> /\ acked = {} /\ heard = <<>>

Say(m) ==
  /\ m \notin Said
  /\ said' = Append(said, m)
  /\ UNCHANGED <<acked, heard>>

Acknowledge(m) ==
  /\ m \in Said
  /\ acked' = acked \cup {m}
  /\ UNCHANGED <<said, heard>>

\* The listener hears the ith message of the history, and whatever it has
\* heard was said before.
Hear(i) ==
  /\ \A k \in 1..Len(heard) : \E j \in 1..i - 1 : said[j] = heard[k]
  /\ heard' = Append(heard, said[i])
  /\ UNCHANGED <<said, acked>>

Next ==
  \/ \E m \in Messages : Say(m) \/ Acknowledge(m)
  \/ \E i \in 1..Len(said) : Hear(i)

Spec == Init /\ [][Next]_vars
---------------------------------------------------------------------------
(* What follows of the promise.                                            *)

\* Only what is in the history was acknowledged.
Truthful == acked \subseteq Said

\* What is heard is said in that order, and nothing is heard twice.
HeardInOrder ==
  \A k \in 1..Len(heard) : \E i \in 1..Len(said) :
    /\ said[i] = heard[k]
    /\ \A j \in 1..k - 1 :
         heard[j] # heard[k] /\ \E h \in 1..i - 1 : said[h] = heard[j]
=============================================================================
