---------------------------- MODULE ChatProofs ----------------------------
(***************************************************************************)
(* Theorems about Chat, for any users, conversations, streams and finite   *)
(* set of messages: types and the bound of the counts; what the lock of    *)
(* the messages key is for, and what an answer to SendMessage means; what  *)
(* a count of unread messages is worth.                                    *)
(*                                                                         *)
(* About ChatStream, as the instance C, for any number of messages: the    *)
(* order of what is delivered, and why a stream ends.                      *)
(*                                                                         *)
(* About Delivery, which is both: a behaviour of Delivery is one of Chat   *)
(* and one of C, so that what was shown of each holds, and with what the   *)
(* two count alike it implements Feed.                                     *)
(*                                                                         *)
(* And about ChatHistory, as the instance H, for any finite set of         *)
(* messages, any walks and any limit of a page: what a client that pages   *)
(* through a growing history is given.  The argument numbers the messages  *)
(* in their order and shows that a page holds exactly the next numbers.    *)
(***************************************************************************)
EXTENDS Delivery, FiniteSetTheorems, SequenceTheorems, TLAPS

---------------------------------------------------------------------------
(* Type correctness.                                                       *)

\* The types of the initial state
LEMMA TypeInit == Init => TypeOK
  BY ChatAssumption DEF Init, TypeOK, Pairs, Keys, SendRequest, SendPC,
     StreamRequest, StreamPC

\* The steps of CreateConversation keep the types.
LEMMA TypeCreate ==
  ASSUME TypeOK, NEW c \in Convs, NEW u \in Users, NEW v \in Users,
         CreateConversation(c, u, v) \/ StoreCopy(c, u) \/ CreateFails(c)
  PROVE  TypeOK'
<1>1. CASE CreateConversation(c, u, v)
  BY <1>1 DEF CreateConversation, TypeOK, redis, history
<1>2. CASE StoreCopy(c, u)
  <2>1. <<u, c>> \in Pairs
    BY DEF Pairs
  <2>2. unread' \in [Pairs -> Nat] /\ rows' \subseteq Pairs
    BY <1>2, <2>1 DEF StoreCopy, HSetCount, TypeOK
  <2>3. stale' \subseteq Sends
    BY <1>2 DEF StoreCopy, HSetCount, Incrementing, TypeOK
  <2>4. creating' \in [Convs -> SUBSET Users]
    <3>1. \/ creating' = [creating EXCEPT ![c] = creating[c] \ {u}]
          \/ creating' = [creating EXCEPT ![c] = {}]
      BY <1>2 DEF StoreCopy
    <3>2. creating \in [Convs -> SUBSET Users]
      BY DEF TypeOK
    <3>3. QED  BY <3>1, <3>2
  <2>5. QED  BY <1>2, <2>2, <2>3, <2>4 DEF StoreCopy, TypeOK
<1>3. CASE CreateFails(c)
  BY <1>3 DEF CreateFails, TypeOK, redis, history
<1>4. QED  BY <1>1, <1>2, <1>3

\* The part of TypeOK about the SendMessage requests.
SendsOK ==
  /\ snd \in [Sends -> SendRequest]
  /\ \A s \in Sends : snd[s].pc # "idle" =>
       snd[s].user \in Users /\ snd[s].conv \in Convs
  /\ \A s \in Sends : snd[s].pc = "write" => snd[s].cur \in Users

\* A step that gives s a well-formed record keeps that part.
LEMMA SendsOKStep ==
  ASSUME SendsOK, NEW s \in Sends, NEW r \in SendRequest,
         snd' = [snd EXCEPT ![s] = r],
         r.user \in Users, r.conv \in Convs,
         r.pc = "write" => r.cur \in Users
  PROVE  SendsOK'
  BY DEF SendsOK

\* The usual such step: only the program counter moves.
LEMMA SendsOKGoto ==
  ASSUME SendsOK, NEW s \in Sends, NEW pc \in SendPC \ {"write"},
         snd[s].pc # "idle", Goto(s, pc)
  PROVE  SendsOK'
<1>1. snd[s] \in SendRequest
  BY DEF SendsOK
<1>2. [snd[s] EXCEPT !.pc = pc] \in SendRequest
  BY <1>1 DEF SendRequest
<1>3. /\ [snd[s] EXCEPT !.pc = pc].user = snd[s].user
      /\ [snd[s] EXCEPT !.pc = pc].conv = snd[s].conv
      /\ [snd[s] EXCEPT !.pc = pc].pc = pc
  BY <1>1 DEF SendRequest
<1>4. snd' = [snd EXCEPT ![s] = [snd[s] EXCEPT !.pc = pc]]
  BY DEF Goto
<1>5. QED  BY <1>2, <1>3, <1>4, SendsOKStep DEF SendsOK

\* The types of the requests follow from the types of the state.
LEMMA SendsOKType == TypeOK => SendsOK
  BY DEF TypeOK, SendsOK

\* The rest of TypeOK, for a step of a request.
RestOK ==
  /\ members \in [Convs -> SUBSET Users]
  /\ creating \in [Convs -> SUBSET Users]
  /\ rows \subseteq Pairs
  /\ unread \in [Pairs -> Nat]
  /\ active \in [Keys -> Convs \cup {None}]
  /\ log \in [Convs -> Seq(Sends)]
  /\ pub \in [Convs -> Seq(Sends)]
  /\ holder \in [Convs -> Sends \cup {None}]
  /\ str \in [Streams -> StreamRequest]
  /\ counted \subseteq Users \X Sends
  /\ since \in [Pairs -> Nat]
  /\ stale \subseteq Sends
  /\ raced \subseteq Pairs
  /\ \A l \in Streams : str[l].pc # "idle" =>
       str[l].user \in Users /\ str[l].conv \in Convs

\* The types are those of the requests and those of the rest.
LEMMA TypeOKSplit == TypeOK <=> SendsOK /\ RestOK
  BY DEF TypeOK, SendsOK, RestOK

\* The steps of SendMessage keep the types.
LEMMA TypeSend ==
  ASSUME TypeOK, NEW s \in Sends, SendStep(s)
  PROVE  TypeOK'
<1>1. SendsOK /\ RestOK /\ snd[s] \in SendRequest
  BY TypeOKSplit DEF SendsOK
<1>2. {"store", "publish", "members", "active", "bump", "ok", "err"}
        \subseteq SendPC \ {"write"}
  BY DEF SendPC
<1>3. snd[s].pc # "idle" => /\ snd[s].user \in Users
                            /\ snd[s].conv \in Convs
                            /\ <<snd[s].user, snd[s].conv>> \in Pairs
  BY <1>1 DEF SendsOK, Pairs
<1>4. SUFFICES SendsOK' /\ RestOK'
  BY TypeOKSplit, PTL
<1>5. CASE SendLock(s)
  <2>1. SendsOK'
    BY <1>1, <1>2, <1>5, SendsOKGoto DEF SendLock
  <2>2. QED  BY <1>1, <1>5, <2>1 DEF SendLock, redis, history, RestOK
<1>6. CASE SendStore(s)
  <2>1. SendsOK'
    BY <1>1, <1>2, <1>6, SendsOKGoto DEF SendStore
  <2>2. log' \in [Convs -> Seq(Sends)]
    BY <1>1, <1>3, <1>6 DEF SendStore, RestOK
  <2>3. holder' \in [Convs -> Sends \cup {None}]
    BY <1>1, <1>3, <1>6 DEF SendStore, Unlock, RestOK
  <2>4. QED  BY <1>1, <1>6, <2>1, <2>2, <2>3 DEF SendStore, history, RestOK
<1>7. CASE SendPublish(s)
  <2>1. SendsOK'
    BY <1>1, <1>2, <1>7, SendsOKGoto DEF SendPublish
  <2>2. QED  BY <1>1, <1>3, <1>7, <2>1 DEF SendPublish, Unlock, history, RestOK
<1>8. CASE SendMembers(s)
  <2>1. SendsOK'
    <3>1. CASE Goto(s, "err")
      BY <1>1, <1>2, <1>8, <3>1, SendsOKGoto DEF SendMembers
    <3>2. CASE snd' = [snd EXCEPT ![s].pc = "active",
                                  ![s].todo = members[snd[s].conv]]
      <4>1. members[snd[s].conv] \in SUBSET Users
        BY <1>1, <1>3, <1>8 DEF SendMembers, RestOK
      <4>2. QED
        BY <1>1, <1>2, <1>3, <1>8, <3>2, <4>1
        DEF SendMembers, SendsOK, SendRequest
    <3>3. QED  BY <1>8, <3>1, <3>2 DEF SendMembers
  <2>2. QED  BY <1>1, <1>8, <2>1 DEF SendMembers, redis, history, RestOK
<1>9. ASSUME NEW p \in Users, SendActive(s, p) PROVE SendsOK' /\ RestOK'
  <2>1. SendsOK'
    BY <1>1, <1>2, <1>3, <1>9 DEF SendActive, SendsOK, SendRequest
  <2>2. QED  BY <1>1, <1>9, <2>1 DEF SendActive, redis, history, RestOK
<1>10. ASSUME NEW p \in Users, BumpRead(s, p) PROVE SendsOK' /\ RestOK'
  <2>1. SendsOK'
    <3>1. CASE Goto(s, "err")
      BY <1>1, <1>2, <1>10, <3>1, SendsOKGoto DEF BumpRead
    <3>2. CASE snd' = [snd EXCEPT ![s].pc = "write", ![s].cur = p,
                                  ![s].val = unread[<<p, snd[s].conv>>]]
      <4>1. unread[<<p, snd[s].conv>>] \in Nat /\ "write" \in SendPC
        BY <1>1, <1>3, <1>10 DEF BumpRead, RestOK, Pairs, SendPC
      <4>2. QED
        BY <1>1, <1>3, <1>10, <3>2, <4>1 DEF BumpRead, SendsOK, SendRequest
    <3>3. QED  BY <1>10, <3>1, <3>2 DEF BumpRead
  <2>2. QED  BY <1>1, <1>10, <2>1 DEF BumpRead, redis, history, RestOK
<1>11. CASE BumpWrite(s)
  <2>1. SendsOK'
    <3>1. PICK pc \in SendPC \ {"write"} :
            snd' = [snd EXCEPT ![s].pc = pc,
                               ![s].inactive = snd[s].inactive \ {snd[s].cur},
                               ![s].cur = None, ![s].val = 0]
      BY <1>2, <1>11 DEF BumpWrite
    <3> DEFINE r == [pc |-> pc, user |-> snd[s].user, conv |-> snd[s].conv,
                     todo |-> snd[s].todo,
                     inactive |-> snd[s].inactive \ {snd[s].cur},
                     cur |-> None, val |-> 0]
    <3>2. snd' = [snd EXCEPT ![s] = r]
      <4>1. snd'[s] = r
        BY <1>1, <3>1 DEF SendsOK, SendRequest
      <4>2. snd' = [snd EXCEPT ![s] = snd'[s]]
        BY <1>1, <3>1 DEF SendsOK
      <4>3. QED  BY <4>1, <4>2
    <3>3. r \in SendRequest
      BY <1>1 DEF SendRequest
    <3>4. r.user \in Users /\ r.conv \in Convs /\ r.pc # "write"
      BY <1>3, <1>11 DEF BumpWrite
    <3>5. QED  BY <1>1, <3>2, <3>3, <3>4, SendsOKStep
  <2>2. snd[s].val \in Nat /\ snd[s].cur \in Users /\ snd[s].conv \in Convs
    BY <1>1, <1>3, <1>11 DEF BumpWrite, SendsOK, SendRequest
  <2> DEFINE row == <<snd[s].cur, snd[s].conv>>
  <2>7. row \in Pairs /\ <<snd[s].cur, s>> \in Users \X Sends
    BY <2>2 DEF Pairs
  <2>8. /\ unread' = [unread EXCEPT ![row] = snd[s].val + 1]
        /\ since' = [since EXCEPT ![row] = @ + 1]
        /\ counted' = counted \cup {<<snd[s].cur, s>>}
        /\ raced' \subseteq raced \cup {row}
    BY <1>11 DEF BumpWrite, HSetCount
  <2>3. unread' \in [Pairs -> Nat] /\ since' \in [Pairs -> Nat]
    <3> HIDE DEF row
    <3>1. QED  BY <1>1, <2>2, <2>7, <2>8 DEF RestOK
  <2>4. counted' \subseteq Users \X Sends /\ raced' \subseteq Pairs
    <3> HIDE DEF row
    <3>1. QED  BY <1>1, <2>7, <2>8 DEF RestOK
  <2>5. stale' \subseteq Sends
    BY <1>1, <1>11 DEF BumpWrite, HSetCount, Incrementing, RestOK
  <2>6. QED  BY <1>1, <1>11, <2>1, <2>3, <2>4, <2>5 DEF BumpWrite, RestOK
<1>12. CASE SendFails(s)
  <2>1. SendsOK'
    BY <1>1, <1>2, <1>12, SendsOKGoto DEF SendFails
  <2>2. QED  BY <1>1, <1>3, <1>12, <2>1 DEF SendFails, Unlock, redis, RestOK
<1>13. QED
  BY <1>5, <1>6, <1>7, <1>8, <1>9, <1>10, <1>11, <1>12 DEF SendStep

\* A request begins.
LEMMA TypeBegin ==
  ASSUME TypeOK, NEW s \in Sends, NEW u \in Users, NEW c \in Convs,
         SendBegin(s, u, c)
  PROVE  TypeOK'
<1>1. SendsOK /\ RestOK /\ snd[s] \in SendRequest /\ "lock" \in SendPC
  BY TypeOKSplit DEF SendsOK, SendPC
<1>2. SendsOK'
  BY <1>1 DEF SendBegin, SendsOK, SendRequest
<1>3. RestOK'
  BY <1>1 DEF SendBegin, RestOK, redis, history
<1>4. QED  BY <1>2, <1>3, TypeOKSplit, PTL

StreamsOK ==
  /\ str \in [Streams -> StreamRequest]
  /\ \A m \in Streams : str[m].pc # "idle" =>
       str[m].user \in Users /\ str[m].conv \in Convs

\* A stream that only moves on keeps its types.
LEMMA StreamsOKGoto ==
  ASSUME StreamsOK, NEW l \in Streams, NEW pc \in StreamPC,
         str[l].pc # "idle", str' = [str EXCEPT ![l].pc = pc]
  PROVE  StreamsOK'
  BY DEF StreamsOK, StreamRequest

\* The steps of a stream keep the types.
LEMMA TypeStream ==
  ASSUME TypeOK, NEW l \in Streams, NEW u \in Users, NEW c \in Convs,
         StreamStep(l) \/ StreamRead(l, u, c)
  PROVE  TypeOK'
<1>1. SendsOK /\ RestOK /\ StreamsOK
  BY TypeOKSplit DEF RestOK, StreamsOK
<1>2. SUFFICES SendsOK' /\ RestOK'
  BY TypeOKSplit, PTL
<1>3. snd' = snd
  BY DEF StreamStep, StreamRead, StreamWrite, StreamWriteFails,
     StreamSetActive, StreamClose
<1>4. SendsOK'
  BY <1>1, <1>3 DEF SendsOK
<1>5. {"write", "setactive", "setactive_failed", "open", "failed", "closed"}
        \subseteq StreamPC
  BY DEF StreamPC
<1>6. CASE StreamRead(l, u, c)
  <2>1. PICK pc \in StreamPC :
          str' = [str EXCEPT ![l] = [pc |-> pc, user |-> u, conv |-> c]]
    BY <1>5, <1>6 DEF StreamRead
  <2>2. [pc |-> pc, user |-> u, conv |-> c] \in StreamRequest
    BY DEF StreamRequest
  <2>3. StreamsOK'
    BY <1>1, <2>1, <2>2 DEF StreamsOK
  <2>4. QED
    BY <1>1, <1>4, <1>6, <2>3 DEF StreamRead, StreamsOK, RestOK, redis, history
<1>7. CASE StreamWrite(l)
  <2>1. <<str[l].user, str[l].conv>> \in Pairs
    BY <1>1, <1>7 DEF StreamWrite, RestOK, Pairs
  <2>2. unread' \in [Pairs -> Nat] /\ since' \in [Pairs -> Nat]
        /\ raced' \subseteq Pairs
    BY <1>1, <1>7, <2>1 DEF StreamWrite, HSetCount, RestOK
  <2>3. stale' \subseteq Sends
    BY <1>1, <1>7 DEF StreamWrite, HSetCount, Incrementing, RestOK
  <2>4. StreamsOK'
    BY <1>1, <1>5, <1>7, StreamsOKGoto DEF StreamWrite
  <2>5. QED
    BY <1>1, <1>4, <1>7, <2>2, <2>3, <2>4 DEF StreamWrite, StreamsOK, RestOK
<1>8. CASE StreamWriteFails(l)
  <2>1. StreamsOK'
    BY <1>1, <1>5, <1>8, StreamsOKGoto DEF StreamWriteFails
  <2>2. QED
    BY <1>1, <1>4, <1>8, <2>1
    DEF StreamWriteFails, StreamsOK, RestOK, redis, history
<1>9. CASE StreamSetActive(l)
  <2>1. StreamsOK'
    BY <1>1, <1>5, <1>9, StreamsOKGoto DEF StreamSetActive
  <2>2. active' \in [Keys -> Convs \cup {None}]
    BY <1>1, <1>9 DEF StreamSetActive, RestOK
  <2>3. QED
    BY <1>1, <1>4, <1>9, <2>1, <2>2
    DEF StreamSetActive, StreamsOK, RestOK, history
<1>10. CASE StreamClose(l)
  <2>1. StreamsOK'
    BY <1>1, <1>5, <1>10, StreamsOKGoto DEF StreamClose
  <2>2. QED
    BY <1>1, <1>4, <1>10, <2>1 DEF StreamClose, StreamsOK, RestOK, history
<1>11. QED
  BY <1>6, <1>7, <1>8, <1>9, <1>10 DEF StreamStep

\* The server starts again.
LEMMA TypeCrash ==
  ASSUME TypeOK, Crash
  PROVE  TypeOK'
<1>1. SendsOK /\ RestOK
  BY TypeOKSplit
<1>2. "lost" \in SendPC /\ "closed" \in StreamPC
  BY DEF SendPC, StreamPC
<1>3. SendsOK'
  BY <1>1, <1>2 DEF Crash, InFlight, SendsOK, SendRequest
<1>4. /\ str' \in [Streams -> StreamRequest]
      /\ \A m \in Streams : str'[m].pc # "idle" =>
           str'[m].user \in Users /\ str'[m].conv \in Convs
  BY <1>1, <1>2 DEF Crash, RestOK, StreamRequest
<1>5. RestOK'
  BY <1>1, <1>4 DEF Crash, RestOK, redis
<1>6. QED  BY <1>3, <1>5, TypeOKSplit, PTL

\* Every step keeps the types.
LEMMA TypeStep == TypeOK /\ [Next]_vars => TypeOK'
<1> SUFFICES ASSUME TypeOK, [Next]_vars PROVE TypeOK'
  OBVIOUS
<1>1. ASSUME NEW c \in Convs, NEW u \in Users, NEW v \in Users,
             CreateConversation(c, u, v)
      PROVE  TypeOK'
  BY <1>1, TypeCreate
<1>2. ASSUME NEW c \in Convs, CreateStep(c) PROVE TypeOK'
  <2>1. ASSUME NEW u \in Users, StoreCopy(c, u) PROVE TypeOK'
    BY <2>1, TypeCreate
  <2>2. CASE CreateFails(c)
    BY <2>2 DEF CreateFails, TypeOK, redis, history
  <2>3. QED  BY <1>2, <2>1, <2>2 DEF CreateStep
<1>3. ASSUME NEW s \in Sends, SendStep(s) PROVE TypeOK'
  BY <1>3, TypeSend
<1>4. ASSUME NEW s \in Sends, NEW u \in Users, NEW c \in Convs,
             SendBegin(s, u, c)
      PROVE  TypeOK'
  BY <1>4, TypeBegin
<1>5. ASSUME NEW l \in Streams, StreamStep(l) PROVE TypeOK'
  <2>1. str[l].user \in Users /\ str[l].conv \in Convs
    BY <1>5 DEF StreamStep, StreamWrite, StreamWriteFails, StreamSetActive,
       StreamClose, TypeOK
  <2>2. QED  BY <1>5, <2>1, TypeStream
<1>6. ASSUME NEW l \in Streams, NEW u \in Users, NEW c \in Convs,
             StreamRead(l, u, c)
      PROVE  TypeOK'
  BY <1>6, TypeStream
<1>7. CASE Crash
  BY <1>7, TypeCrash
<1>8. CASE Finished \/ UNCHANGED vars
  BY <1>8 DEF Finished, vars, TypeOK
<1>9. QED
  BY <1>1, <1>2, <1>3, <1>4, <1>5, <1>6, <1>7, <1>8 DEF Next

\* The variables of Chat keep their types: in particular a request past its
\* first step names a user and a conversation, and an increment under way
\* names the participant whose copy it rewrites.
THEOREM TypeCorrect == Spec => []TypeOK
<1>1. QED  BY TypeInit, TypeStep, PTL DEF Spec

\* What Append gives, as the steps below need it
LEMMA AppendIs ==
  ASSUME NEW q \in Seq(Sends), NEW s \in Sends
  PROVE  /\ Append(q, s) # <<>> /\ Append(q, s) \in Seq(Sends)
         /\ Len(q) \in Nat /\ Len(Append(q, s)) = Len(q) + 1
         /\ Append(q, s)[Len(q) + 1] = s
         /\ \A i \in 1..Len(q) : Append(q, s)[i] = q[i]
  OBVIOUS

\* And what is then in the sequence
LEMMA AppendHas ==
  ASSUME NEW q \in Seq(Sends), NEW s \in Sends
  PROVE  {Append(q, s)[i] : i \in 1..Len(Append(q, s))} = {q[i] : i \in 1..Len(q)} \cup {s}
<1> DEFINE a == Append(q, s)
<1>1. /\ Len(q) \in Nat /\ Len(a) = Len(q) + 1 /\ a[Len(q) + 1] = s
      /\ \A i \in 1..Len(q) : a[i] = q[i]
  BY AppendIs
<1> HIDE DEF a
<1>2. ASSUME NEW i \in 1..Len(a) PROVE a[i] \in {q[j] : j \in 1..Len(q)} \cup {s}
  <2>1. i \in 1..Len(q) \/ i = Len(q) + 1
    BY <1>1
  <2>2. QED  BY <1>1, <2>1
<1>3. ASSUME NEW j \in 1..Len(q) PROVE q[j] \in {a[i] : i \in 1..Len(a)}
  <2>1. j \in 1..Len(a) /\ a[j] = q[j]
    BY <1>1
  <2>2. QED  BY <2>1
<1>4. s \in {a[i] : i \in 1..Len(a)}
  <2>1. Len(a) \in 1..Len(a) /\ a[Len(a)] = s
    BY <1>1
  <2>2. QED  BY <2>1
<1>5. QED  BY <1>2, <1>3, <1>4 DEF a

---------------------------------------------------------------------------
(* UnreadBounded. The count of a copy is at most the number of messages    *)
(* counted for it, and those are stored. The invariant says, of a request  *)
(* that is about to count its message for a participant, that it has not   *)
(* done so yet, and that the count it read is one that was reached.        *)

Uncounted(s) ==
  /\ snd[s].pc \in {"idle", "lock", "store", "publish", "members", "active"}
       => \A u \in Users : <<u, s>> \notin counted
  /\ snd[s].pc \in {"bump", "write"}
       => \A u \in snd[s].inactive : <<u, s>> \notin counted

ReadWasReached(s) ==
  snd[s].pc = "write" =>
    /\ snd[s].cur \in snd[s].inactive
    /\ snd[s].val <= Cardinality(CountedIn(snd[s].cur, snd[s].conv))

StoredBeforeCounted(s) ==
  /\ snd[s].pc \in {"publish", "members", "active", "bump", "write"}
       => s \in Stored(snd[s].conv)
  /\ \A u \in Users : <<u, s>> \in counted => s \in Stored(snd[s].conv)

CountInv ==
  /\ \A s \in Sends :
       Uncounted(s) /\ ReadWasReached(s) /\ StoredBeforeCounted(s)
  /\ \A u \in Users, c \in Convs :
       unread[<<u, c>>] <= Cardinality(CountedIn(u, c))

\* The messages that are counted are finitely many.
LEMMA CountedFinite ==
  ASSUME NEW u, NEW c
  PROVE  IsFiniteSet(CountedIn(u, c)) /\ Cardinality(CountedIn(u, c)) \in Nat
<1>1. IsFiniteSet(CountedIn(u, c))
  BY ChatAssumption, FS_Subset DEF CountedIn
<1>2. QED  BY <1>1, FS_CardinalityType

\* Nothing is counted at first.
LEMMA CountInit == Init => CountInv
<1> SUFFICES ASSUME Init PROVE CountInv
  OBVIOUS
<1>1. ASSUME NEW u \in Users, NEW c \in Convs
      PROVE  unread[<<u, c>>] <= Cardinality(CountedIn(u, c))
  BY CountedFinite DEF Init, Pairs
<1>2. QED
  BY <1>1 DEF Init, CountInv, Uncounted, ReadWasReached, StoredBeforeCounted

\* A step that counts nothing, that leaves every copy with its count or a
\* zero one, and that moves one request only, keeps the invariant when that
\* request keeps its part of it.
LEMMA CountFrame ==
  ASSUME TypeOK, TypeOK', CountInv,
         counted' = counted,
         \A c \in Convs : Stored(c) \subseteq Stored(c)',
         \A p \in Pairs : unread'[p] = unread[p] \/ unread'[p] = 0,
         NEW s \in Sends,
         \A t \in Sends \ {s} : snd'[t] = snd[t],
         snd'[s].conv = snd[s].conv \/ snd[s].pc = "idle",
         Uncounted(s)', ReadWasReached(s)', StoredBeforeCounted(s)'
  PROVE  CountInv'
<1>1. ASSUME NEW u \in Users, NEW c \in Convs
      PROVE  CountedIn(u, c)' = CountedIn(u, c)
  BY DEF CountInv, Uncounted, CountedIn
<1>2. ASSUME NEW u \in Users, NEW c \in Convs
      PROVE  unread'[<<u, c>>] <= Cardinality(CountedIn(u, c)')
  <2>1. <<u, c>> \in Pairs
    BY DEF Pairs
  <2>2. QED
    BY <1>1, <2>1, CountedFinite DEF CountInv
<1>3. ASSUME NEW t \in Sends, t # s
      PROVE  (Uncounted(t) /\ ReadWasReached(t) /\ StoredBeforeCounted(t))'
  <2>1. Uncounted(t)'
    BY <1>3 DEF CountInv, Uncounted
  <2>2. ReadWasReached(t)'
    <3>1. snd'[t] = snd[t]
      BY <1>3
    <3>2. ASSUME snd[t].pc = "write"
          PROVE  /\ snd[t].cur \in snd[t].inactive
                 /\ snd[t].val <= Cardinality(CountedIn(snd[t].cur, snd[t].conv))
      BY <3>2 DEF CountInv, ReadWasReached
    <3>3. ASSUME snd[t].pc = "write"
          PROVE  snd[t].cur \in Users /\ snd[t].conv \in Convs
      BY <3>3 DEF TypeOK
    <3>4. ASSUME snd[t].pc = "write"
          PROVE  CountedIn(snd[t].cur, snd[t].conv)' = CountedIn(snd[t].cur, snd[t].conv)
      <4>1. PICK u \in Users : u = snd[t].cur
        BY <3>3, <3>4
      <4>2. PICK c \in Convs : c = snd[t].conv
        BY <3>3, <3>4
      <4>3. CountedIn(u, c)' = CountedIn(u, c)
        BY <1>1
      <4>4. QED  BY <3>1, <4>1, <4>2, <4>3 DEF CountedIn
    <3>5. QED  BY <3>1, <3>2, <3>4 DEF ReadWasReached, CountedIn
  <2>3. StoredBeforeCounted(t)'
    <3>1. CASE snd[t].conv \in Convs
      BY <1>3, <3>1 DEF CountInv, StoredBeforeCounted
    <3>2. CASE snd[t].conv \notin Convs
      BY <1>3, <3>2 DEF CountInv, StoredBeforeCounted, Uncounted, TypeOK
    <3>3. QED  BY <3>1, <3>2
  <2>4. QED  BY <2>1, <2>2, <2>3
<1>4. QED  BY <1>2, <1>3 DEF CountInv

\* The same for a step that moves no SendMessage request.
LEMMA CountOthers ==
  ASSUME TypeOK, TypeOK', CountInv,
         counted' = counted, log' = log, snd' = snd,
         \A p \in Pairs : unread'[p] = unread[p] \/ unread'[p] = 0
  PROVE  CountInv'
<1>1. \A u \in Users, c \in Convs : CountedIn(u, c)' = CountedIn(u, c)
  BY DEF CountedIn
<1>2. \A c : Stored(c)' = Stored(c)
  BY DEF Stored
<1>3. ASSUME NEW u \in Users, NEW c \in Convs
      PROVE  unread'[<<u, c>>] <= Cardinality(CountedIn(u, c)')
  <2>1. <<u, c>> \in Pairs
    BY DEF Pairs
  <2>2. QED  BY <1>1, <2>1, CountedFinite DEF CountInv
<1>4. ASSUME NEW t \in Sends
      PROVE  (Uncounted(t) /\ ReadWasReached(t) /\ StoredBeforeCounted(t))'
  BY <1>1, <1>2
  DEF CountInv, Uncounted, ReadWasReached, StoredBeforeCounted, TypeOK
<1>5. QED  BY <1>3, <1>4 DEF CountInv

\* Incrementing a copy: the message counted is a new one.
LEMMA CountBumpWrite ==
  ASSUME TypeOK, TypeOK', CountInv, NEW s \in Sends, BumpWrite(s)
  PROVE  CountInv'
<1>15. PICK p \in Users, c \in Convs : p = snd[s].cur /\ c = snd[s].conv
  BY DEF BumpWrite, TypeOK
<1>1. snd[s].pc = "write" /\ snd[s] \in SendRequest
  BY DEF BumpWrite, TypeOK
<1>2. /\ counted' = counted \cup {<<p, s>>}
      /\ unread' = [unread EXCEPT ![<<p, c>>] = snd[s].val + 1]
      /\ log' = log
  BY <1>15 DEF BumpWrite, HSetCount
<1>3. PICK pc \in {"bump", "ok", "err"} :
        snd' = [snd EXCEPT ![s].pc = pc, ![s].inactive = snd[s].inactive \ {p},
                           ![s].cur = None, ![s].val = 0]
  BY <1>15 DEF BumpWrite
<1>4. /\ snd'[s].pc = pc /\ snd'[s].conv = c
      /\ snd'[s].inactive = snd[s].inactive \ {p}
      /\ \A t \in Sends \ {s} : snd'[t] = snd[t]
  BY <1>1, <1>3, <1>15 DEF TypeOK, SendRequest
<1>5. p \in snd[s].inactive /\ <<p, s>> \notin counted
      /\ snd[s].val <= Cardinality(CountedIn(p, c)) /\ snd[s].val \in Nat
  BY <1>1, <1>15 DEF CountInv, Uncounted, ReadWasReached, SendRequest
<1>16. \A t \in Sends : snd'[t].conv = snd[t].conv
  BY <1>4, <1>15
<1>6. CountedIn(p, c)' = CountedIn(p, c) \cup {s} /\ s \notin CountedIn(p, c)
  BY <1>2, <1>5, <1>15, <1>16 DEF CountedIn
<1>7. Cardinality(CountedIn(p, c)') = Cardinality(CountedIn(p, c)) + 1
  BY <1>6, CountedFinite, FS_AddElement
<1>8. ASSUME NEW u \in Users, NEW d \in Convs, <<u, d>> # <<p, c>>
      PROVE  CountedIn(u, d)' = CountedIn(u, d)
  <2>1. \A t \in Sends : snd[t].conv = d =>
          (<<u, t>> \in counted' <=> <<u, t>> \in counted)
    BY <1>2, <1>8, <1>15
  <2>2. QED  BY <1>16, <2>1 DEF CountedIn
<1>9. ASSUME NEW u \in Users, NEW d \in Convs
      PROVE  unread'[<<u, d>>] <= Cardinality(CountedIn(u, d)')
  <2>1. CASE <<u, d>> = <<p, c>>
    <3>1. unread'[<<p, c>>] = snd[s].val + 1
      BY <1>1, <1>2 DEF TypeOK, Pairs
    <3>2. u = p /\ d = c
      BY <2>1
    <3>3. QED  BY <1>5, <1>7, <3>1, <3>2, CountedFinite
  <2>2. CASE <<u, d>> # <<p, c>>
    <3>1. unread'[<<u, d>>] = unread[<<u, d>>]
      BY <1>2, <2>2 DEF TypeOK, Pairs
    <3>2. QED  BY <1>8, <2>2, <3>1 DEF CountInv
  <2>3. QED  BY <2>1, <2>2
<1>10. ASSUME NEW u \in Users, NEW d \in Convs
       PROVE  Cardinality(CountedIn(u, d)) <= Cardinality(CountedIn(u, d)')
  <2>1. CASE <<u, d>> = <<p, c>>
    <3>1. u = p /\ d = c
      BY <2>1
    <3>2. QED  BY <1>7, <3>1, CountedFinite
  <2>2. CASE <<u, d>> # <<p, c>>
    BY <1>8, <2>2, CountedFinite
  <2>3. QED  BY <2>1, <2>2
<1>11. \A d : Stored(d)' = Stored(d)
  BY <1>2 DEF Stored
<1>12. Uncounted(s)' /\ ReadWasReached(s)' /\ StoredBeforeCounted(s)'
  <2>1. Uncounted(s)'
    BY <1>1, <1>2, <1>4 DEF CountInv, Uncounted
  <2>2. ReadWasReached(s)'
    BY <1>4 DEF ReadWasReached
  <2>3. StoredBeforeCounted(s)'
    BY <1>1, <1>2, <1>4, <1>11, <1>15 DEF CountInv, StoredBeforeCounted
  <2>4. QED  BY <2>1, <2>2, <2>3
<1>13. ASSUME NEW t \in Sends, t # s
       PROVE  (Uncounted(t) /\ ReadWasReached(t) /\ StoredBeforeCounted(t))'
  <2>1. snd'[t] = snd[t] /\ \A u \in Users : <<u, t>> \in counted' <=> <<u, t>> \in counted
    BY <1>2, <1>4, <1>13
  <2>2. Uncounted(t)'
    BY <2>1 DEF CountInv, Uncounted, TypeOK, SendRequest
  <2>3. ReadWasReached(t)'
    <3>1. CASE snd[t].pc = "write"
      <4>1. PICK q \in Users, d \in Convs : q = snd[t].cur /\ d = snd[t].conv
        BY <3>1 DEF TypeOK
      <4>2. q \in snd[t].inactive /\ snd[t].val \in Nat
            /\ snd[t].val <= Cardinality(CountedIn(q, d))
        BY <3>1, <4>1 DEF CountInv, ReadWasReached, TypeOK, SendRequest
      <4>3. snd[t].val <= Cardinality(CountedIn(q, d)')
        <5>1. Cardinality(CountedIn(q, d)') \in Nat
          BY <1>6, <1>7, <1>8, CountedFinite
        <5>2. QED  BY <1>10, <4>2, <5>1, CountedFinite
      <4>4. QED  BY <2>1, <4>1, <4>2, <4>3 DEF ReadWasReached
    <3>2. CASE snd[t].pc # "write"
      BY <2>1, <3>2 DEF ReadWasReached
    <3>3. QED  BY <3>1, <3>2
  <2>4. StoredBeforeCounted(t)'
    BY <1>11, <2>1 DEF CountInv, StoredBeforeCounted
  <2>5. QED  BY <2>2, <2>3, <2>4
<1>14. QED  BY <1>9, <1>12, <1>13 DEF CountInv

\* The steps of SendMessage keep the bound of the counts.
LEMMA CountSend ==
  ASSUME TypeOK, TypeOK', CountInv, NEW s \in Sends, SendStep(s)
  PROVE  CountInv'
<1>1. snd \in [Sends -> SendRequest] /\ snd[s] \in SendRequest
      /\ (snd[s].pc # "idle" => snd[s].conv \in Convs)
  BY DEF TypeOK
<1>2. Uncounted(s) /\ ReadWasReached(s) /\ StoredBeforeCounted(s)
  BY DEF CountInv
<1>3. ASSUME log' = log PROVE \A c : Stored(c)' = Stored(c)
  BY <1>3 DEF Stored
<1>4. ASSUME snd[s].pc # "idle", NEW pc \in SendPC \ {"write"}, Goto(s, pc),
             counted' = counted, unread' = unread,
             \A c \in Convs : Stored(c) \subseteq Stored(c)',
             pc \in {"store", "publish", "members"}
               => snd[s].pc \in {"lock", "store", "publish"},
             pc \in {"publish", "members"} => s \in Stored(snd[s].conv)',
             pc \notin {"idle", "lock", "active", "bump"}
      PROVE  CountInv'
  <2>1. /\ snd'[s].pc = pc /\ snd'[s].conv = snd[s].conv
        /\ \A t \in Sends \ {s} : snd'[t] = snd[t]
    BY <1>1, <1>4 DEF Goto, SendRequest
  <2>2. Uncounted(s)'
    BY <1>2, <1>4, <2>1 DEF Uncounted
  <2>3. ReadWasReached(s)'
    BY <1>4, <2>1 DEF ReadWasReached
  <2>4. StoredBeforeCounted(s)'
    BY <1>1, <1>2, <1>4, <2>1 DEF StoredBeforeCounted
  <2>5. QED  BY <1>4, <2>1, <2>2, <2>3, <2>4, CountFrame
<1>5. {"store", "publish", "members", "ok", "err"} \subseteq SendPC \ {"write"}
  BY DEF SendPC
<1>6. CASE SendLock(s)
  BY <1>3, <1>4, <1>5, <1>6 DEF SendLock, redis, history
<1>7. CASE SendStore(s)
  <2>1. PICK c \in Convs : c = snd[s].conv
    BY <1>1, <1>7 DEF SendStore
  <2>2. log' = [log EXCEPT ![c] = Append(@, s)] /\ log[c] \in Seq(Sends)
    BY <1>7, <2>1 DEF SendStore, TypeOK
  <2>3. Stored(c)' = Stored(c) \cup {s}
    <3>1. log'[c] = Append(log[c], s)
      BY <2>2 DEF TypeOK
    <3>2. QED  BY <2>2, <3>1, AppendHas DEF Stored
  <2>4. \A d \in Convs : Stored(d) \subseteq Stored(d)'
    <3>1. ASSUME NEW d \in Convs, d # c PROVE Stored(d)' = Stored(d)
      BY <2>2, <3>1 DEF Stored, TypeOK
    <3>2. QED  BY <2>3, <3>1
  <2>5. s \in Stored(snd[s].conv)'
    <3>1. snd'[s].conv = c
      BY <1>1, <1>7, <2>1 DEF SendStore, Goto, SendRequest
    <3>2. QED  BY <2>3, <3>1
  <2>6. counted' = counted /\ unread' = unread /\ snd[s].pc = "store"
    BY <1>7 DEF SendStore, history
  <2>7. CASE Goto(s, "publish")
    BY <1>4, <1>5, <2>4, <2>5, <2>6, <2>7
  <2>8. CASE Goto(s, "err")
    BY <1>4, <1>5, <2>4, <2>6, <2>8
  <2>9. QED  BY <1>7, <2>7, <2>8 DEF SendStore
<1>8. CASE SendPublish(s)
  <2>1. /\ counted' = counted /\ unread' = unread /\ log' = log
        /\ snd[s].pc = "publish"
    BY <1>8 DEF SendPublish, history
  <2>2. s \in Stored(snd[s].conv)'
    BY <1>1, <1>2, <1>8, <2>1
    DEF SendPublish, Goto, SendRequest, StoredBeforeCounted, Stored
  <2>3. CASE Goto(s, "members")
    BY <1>3, <1>4, <1>5, <2>1, <2>2, <2>3
  <2>4. CASE Goto(s, "err")
    BY <1>3, <1>4, <1>5, <2>1, <2>4
  <2>5. QED  BY <1>8, <2>3, <2>4 DEF SendPublish
<1>9. ASSUME snd' = [snd EXCEPT ![s].pc = "active",
                                ![s].todo = members[snd[s].conv]],
             SendMembers(s)
      PROVE  CountInv'
  <2>1. /\ snd'[s].pc = "active" /\ snd'[s].conv = snd[s].conv
        /\ \A t \in Sends \ {s} : snd'[t] = snd[t]
        /\ snd[s].pc = "members" /\ counted' = counted /\ unread' = unread
        /\ log' = log
    BY <1>1, <1>9 DEF SendMembers, SendRequest, redis, history
  <2>2. Uncounted(s)' /\ ReadWasReached(s)'
    BY <1>2, <2>1 DEF Uncounted, ReadWasReached
  <2>3. StoredBeforeCounted(s)'
    BY <1>2, <1>3, <2>1 DEF StoredBeforeCounted, Stored
  <2>4. QED  BY <1>3, <2>1, <2>2, <2>3, CountFrame
<1>10. CASE SendMembers(s)
  <2>1. CASE Goto(s, "err")
    BY <1>3, <1>4, <1>5, <1>10, <2>1 DEF SendMembers, redis, history
  <2>2. QED  BY <1>9, <1>10, <2>1 DEF SendMembers
<1>11. ASSUME NEW p \in Users, SendActive(s, p) PROVE CountInv'
  <2>1. /\ snd'[s].pc \in {"active", "bump", "ok"}
        /\ snd'[s].conv = snd[s].conv
        /\ \A t \in Sends \ {s} : snd'[t] = snd[t]
        /\ snd[s].pc = "active" /\ counted' = counted /\ unread' = unread
        /\ log' = log
    BY <1>1, <1>11 DEF SendActive, SendRequest, redis, history
  <2>2. Uncounted(s)'
    <3>1. snd'[s].inactive \subseteq Users
      BY DEF TypeOK, SendRequest
    <3>2. QED  BY <1>2, <2>1, <3>1 DEF Uncounted
  <2>3. ReadWasReached(s)'
    BY <2>1 DEF ReadWasReached
  <2>4. StoredBeforeCounted(s)'
    BY <1>2, <2>1 DEF StoredBeforeCounted, Stored
  <2>5. QED  BY <1>3, <2>1, <2>2, <2>3, <2>4, CountFrame
<1>12. ASSUME NEW p \in Users, BumpRead(s, p) PROVE CountInv'
  <2>1. CASE Goto(s, "err")
    BY <1>3, <1>4, <1>5, <1>12, <2>1 DEF BumpRead, redis, history
  <2>2. CASE snd' = [snd EXCEPT ![s].pc = "write", ![s].cur = p,
                                ![s].val = unread[<<p, snd[s].conv>>]]
    <3>1. /\ snd'[s].pc = "write" /\ snd'[s].conv = snd[s].conv
          /\ snd'[s].inactive = snd[s].inactive /\ snd'[s].cur = p
          /\ snd'[s].val = unread[<<p, snd[s].conv>>]
          /\ \A t \in Sends \ {s} : snd'[t] = snd[t]
      BY <1>1, <2>2 DEF SendRequest
    <3>2. /\ snd[s].pc = "bump" /\ p \in snd[s].inactive
          /\ counted' = counted /\ unread' = unread /\ log' = log
      BY <1>12 DEF BumpRead, redis, history
    <3>3. Uncounted(s)'
      BY <1>2, <3>1, <3>2 DEF Uncounted
    <3>4. StoredBeforeCounted(s)'
      BY <1>2, <3>1, <3>2 DEF StoredBeforeCounted, Stored
    <3>5. PICK c \in Convs : c = snd[s].conv
      BY <1>1, <3>2
    <3>6. CountedIn(p, c)' = CountedIn(p, c)
      <4>1. \A t \in Sends : snd'[t].conv = snd[t].conv
        BY <3>1
      <4>2. QED  BY <3>2, <4>1 DEF CountedIn
    <3>7. ReadWasReached(s)'
      BY <3>1, <3>2, <3>5, <3>6 DEF ReadWasReached, CountInv
    <3>8. QED  BY <1>3, <3>1, <3>2, <3>3, <3>4, <3>7, CountFrame
  <2>3. QED  BY <1>12, <2>1, <2>2 DEF BumpRead
<1>13. CASE BumpWrite(s)
  BY <1>13, CountBumpWrite
<1>14. CASE SendFails(s)
  BY <1>3, <1>4, <1>5, <1>14 DEF SendFails, redis
<1>15. QED
  BY <1>6, <1>7, <1>8, <1>10, <1>11, <1>12, <1>13, <1>14 DEF SendStep

\* A request that begins has counted nothing.
LEMMA CountBegin ==
  ASSUME TypeOK, TypeOK', CountInv,
         NEW s \in Sends, NEW u \in Users, NEW c \in Convs, SendBegin(s, u, c)
  PROVE  CountInv'
<1>1. /\ snd'[s].pc = "lock" /\ snd[s].pc = "idle"
      /\ \A t \in Sends \ {s} : snd'[t] = snd[t]
      /\ counted' = counted /\ unread' = unread /\ log' = log
  BY DEF SendBegin, TypeOK, SendRequest, redis, history
<1>2. Uncounted(s)' /\ ReadWasReached(s)' /\ StoredBeforeCounted(s)'
  BY <1>1 DEF CountInv, Uncounted, ReadWasReached, StoredBeforeCounted
<1>3. \A d \in Convs : Stored(d) \subseteq Stored(d)'
  BY <1>1 DEF Stored
<1>4. QED  BY <1>1, <1>2, <1>3, CountFrame

\* A request lost in a restart keeps what it counted.
LEMMA CountCrash ==
  ASSUME TypeOK, TypeOK', CountInv, Crash
  PROVE  CountInv'
<1>1. counted' = counted /\ unread' = unread /\ log' = log
  BY DEF Crash, redis
<1>2. ASSUME NEW t \in Sends
      PROVE  /\ snd'[t].conv = snd[t].conv
             /\ snd'[t].inactive = snd[t].inactive
             /\ snd'[t].pc \in {snd[t].pc, "lost"}
             /\ snd'[t].pc \notin {"bump", "write"}
             /\ snd'[t].pc \in {"idle", "lost", "ok", "err"}
  BY DEF Crash, InFlight, TypeOK, SendRequest, SendPC
<1>3. \A u \in Users, c \in Convs : CountedIn(u, c)' = CountedIn(u, c)
  BY <1>1, <1>2 DEF CountedIn
<1>4. ASSUME NEW t \in Sends
      PROVE  (Uncounted(t) /\ ReadWasReached(t) /\ StoredBeforeCounted(t))'
  BY <1>1, <1>2
  DEF CountInv, Uncounted, ReadWasReached, StoredBeforeCounted, Stored
<1>5. QED  BY <1>1, <1>3, <1>4 DEF CountInv

\* Every step keeps the bound of the counts.
LEMMA CountStep == TypeOK /\ TypeOK' /\ CountInv /\ [Next]_vars => CountInv'
<1> SUFFICES ASSUME TypeOK, TypeOK', CountInv, [Next]_vars PROVE CountInv'
  OBVIOUS
<1>1. ASSUME NEW c \in Convs, NEW u \in Users, NEW v \in Users,
             CreateConversation(c, u, v)
      PROVE  CountInv'
  BY <1>1, CountOthers DEF CreateConversation, redis, history
<1>2. ASSUME NEW c \in Convs, CreateStep(c) PROVE CountInv'
  <2>1. ASSUME NEW u \in Users, StoreCopy(c, u) PROVE CountInv'
    <3>1. \A p \in Pairs : unread'[p] = unread[p] \/ unread'[p] = 0
      BY <2>1 DEF StoreCopy, HSetCount, TypeOK
    <3>2. QED  BY <2>1, <3>1, CountOthers DEF StoreCopy
  <2>2. CASE CreateFails(c)
    BY <2>2, CountOthers DEF CreateFails, redis, history
  <2>3. QED  BY <1>2, <2>1, <2>2 DEF CreateStep
<1>3. ASSUME NEW s \in Sends, SendStep(s) PROVE CountInv'
  BY <1>3, CountSend
<1>4. ASSUME NEW s \in Sends, NEW u \in Users, NEW c \in Convs,
             SendBegin(s, u, c)
      PROVE  CountInv'
  BY <1>4, CountBegin
<1>5. ASSUME NEW l \in Streams, StreamStep(l) PROVE CountInv'
  <2>1. CASE StreamWrite(l)
    <3>1. \A p \in Pairs : unread'[p] = unread[p] \/ unread'[p] = 0
      BY <2>1 DEF StreamWrite, HSetCount, TypeOK
    <3>2. QED  BY <2>1, <3>1, CountOthers DEF StreamWrite
  <2>2. CASE StreamWriteFails(l)
    BY <2>2, CountOthers DEF StreamWriteFails, redis, history
  <2>3. CASE StreamSetActive(l)
    BY <2>3, CountOthers DEF StreamSetActive, history
  <2>4. CASE StreamClose(l)
    BY <2>4, CountOthers DEF StreamClose, history
  <2>5. QED  BY <1>5, <2>1, <2>2, <2>3, <2>4 DEF StreamStep
<1>6. ASSUME NEW l \in Streams, NEW u \in Users, NEW c \in Convs,
             StreamRead(l, u, c)
      PROVE  CountInv'
  BY <1>6, CountOthers DEF StreamRead, redis, history
<1>7. CASE Crash
  BY <1>7, CountCrash
<1>8. CASE Finished \/ UNCHANGED vars
  BY <1>8, CountOthers DEF Finished, vars
<1>9. QED
  BY <1>1, <1>2, <1>3, <1>4, <1>5, <1>6, <1>7, <1>8 DEF Next

\* The bound is the one of the property.
LEMMA CountImplies == TypeOK /\ CountInv => UnreadBounded
<1> SUFFICES ASSUME TypeOK, CountInv, NEW u \in Users, NEW c \in Convs
    PROVE  unread[<<u, c>>] <= Cardinality(Stored(c))
  BY DEF UnreadBounded
<1>1. CountedIn(u, c) \subseteq Stored(c)
  BY DEF CountInv, StoredBeforeCounted, CountedIn
<1>2. Stored(c) \subseteq Sends
  BY DEF Stored, TypeOK
<1>3. IsFiniteSet(Stored(c)) /\ Cardinality(Stored(c)) \in Nat
  BY <1>2, ChatAssumption, FS_Subset, FS_CardinalityType
<1>4. Cardinality(CountedIn(u, c)) <= Cardinality(Stored(c))
  BY <1>1, <1>3, FS_Subset
<1>5. unread[<<u, c>>] \in Nat
  BY DEF TypeOK, Pairs
<1>6. QED  BY <1>3, <1>4, <1>5, CountedFinite DEF CountInv

\* However the unlocked increments of IncrementInactiveUserMsgsCount and the
\* resets of ReadConversationMessages overlap, whatever commands fail and
\* whenever the process restarts, no unread count exceeds the number of
\* messages stored in its conversation.
THEOREM UnreadBoundedCorrect == Spec => []UnreadBounded
<1>1. Init => TypeOK /\ CountInv
  BY TypeInit, CountInit
<1>2. TypeOK /\ CountInv /\ [Next]_vars => (TypeOK /\ CountInv)'
  BY TypeStep, CountStep
<1>3. QED  BY <1>1, <1>2, CountImplies, PTL DEF Spec
---------------------------------------------------------------------------
(* The order of messages, and what an acknowledged one has reached.        *)

(* PublishedInStoreOrder. Who is between ZADD and PUBLISH holds the lock,  *)
(* and its message is the last one stored.                                 *)

Locking(s) == snd[s].pc \in {"store", "publish"}

LastStored(s) ==
  LET c == snd[s].conv IN log[c] # <<>> /\ log[c][Len(log[c])] = s

LockInv ==
  \A s \in Sends :
    /\ Locking(s) => holder[snd[s].conv] = s
    /\ snd[s].pc = "publish" => LastStored(s)

\* The jth message of published is in stored, after those published before.
Preceded(stored, published, j) ==
  \E i \in 1..Len(stored) :
    /\ stored[i] = published[j]
    /\ \A k \in 1..j : \E h \in 1..i : stored[h] = published[k]

OrderOf(c) == \A j \in 1..Len(pub[c]) : Preceded(log[c], pub[c], j)

OrderInAll == \A c \in Convs : OrderOf(c)

\* The property, conversation by conversation
LEMMA OrderSplit == PublishedInStoreOrder <=> OrderInAll
  BY DEF PublishedInStoreOrder, OrderInAll, OrderOf, Preceded

\* A message stays where it is when another is stored after it.
LEMMA PrecededStored ==
  ASSUME NEW q \in Seq(Sends), NEW p, NEW j, NEW s \in Sends,
         Preceded(q, p, j)
  PROVE  Preceded(Append(q, s), p, j)
<1>1. PICK i \in 1..Len(q) :
        q[i] = p[j] /\ \A k \in 1..j : \E h \in 1..i : q[h] = p[k]
  BY DEF Preceded
<1>2. /\ i \in 1..Len(Append(q, s))
      /\ \A h \in 1..i : Append(q, s)[h] = q[h]
      /\ i \in 1..i
  BY AppendIs
<1>3. \A k \in 1..j : \E h \in 1..i : Append(q, s)[h] = p[k]
  BY <1>1, <1>2
<1>4. QED  BY <1>1, <1>2, <1>3 DEF Preceded

\* And when another is published after it.
LEMMA PrecededPublished ==
  ASSUME NEW q, NEW p \in Seq(Sends), NEW s \in Sends,
         NEW j \in 1..Len(p), Preceded(q, p, j)
  PROVE  Preceded(q, Append(p, s), j)
<1>1. PICK i \in 1..Len(q) :
        q[i] = p[j] /\ \A k \in 1..j : \E h \in 1..i : q[h] = p[k]
  BY DEF Preceded
<1>2. /\ \A k \in 1..j : Append(p, s)[k] = p[k]
      /\ Append(p, s)[j] = p[j]
  BY AppendIs
<1>3. \A k \in 1..j : \E h \in 1..i : q[h] = Append(p, s)[k]
  BY <1>1, <1>2
<1>4. QED  BY <1>1, <1>2, <1>3 DEF Preceded

\* The last one stored may be published after all that have been.
LEMMA LastPreceded ==
  ASSUME NEW q \in Seq(Sends), NEW p \in Seq(Sends), NEW s \in Sends,
         q # <<>>, q[Len(q)] = s,
         \A k \in 1..Len(p) : Preceded(q, p, k)
  PROVE  Preceded(q, Append(p, s), Len(p) + 1)
<1>1. Len(q) \in 1..Len(q) /\ Len(p) \in Nat
  OBVIOUS
<1>2. ASSUME NEW k \in 1..(Len(p) + 1)
      PROVE  \E h \in 1..Len(q) : q[h] = Append(p, s)[k]
  <2>1. CASE k \in 1..Len(p)
    <3>1. Append(p, s)[k] = p[k]
      BY <2>1, AppendIs
    <3>2. PICK h \in 1..Len(q) : q[h] = p[k]
      BY <2>1 DEF Preceded
    <3>3. QED  BY <3>1, <3>2
  <2>2. CASE k = Len(p) + 1
    BY <1>1, <2>2, AppendIs
  <2>3. QED  BY <1>1, <2>1, <2>2
<1>3. Append(p, s)[Len(p) + 1] = q[Len(q)]
  BY AppendIs
<1>4. QED  BY <1>1, <1>2, <1>3 DEF Preceded

\* A step that stores and publishes nothing, and after which every request
\* under a lock is one that was there before and still has it
LEMMA OrderFrame ==
  ASSUME TypeOK, LockInv, PublishedInStoreOrder, log' = log, pub' = pub,
         \A t \in Sends : Locking(t)' =>
           /\ snd'[t].pc = snd[t].pc /\ snd'[t].conv = snd[t].conv
           /\ holder'[snd[t].conv] = holder[snd[t].conv]
  PROVE  (LockInv /\ PublishedInStoreOrder)'
<1>1. LockInv'
  BY DEF LockInv, Locking, LastStored
<1>2. PublishedInStoreOrder'
  BY DEF PublishedInStoreOrder
<1>3. QED  BY <1>1, <1>2

\* A step of s after which s holds no lock, and frees at most its own
LEMMA OrderLeaves ==
  ASSUME TypeOK, LockInv, PublishedInStoreOrder, log' = log, pub' = pub,
         NEW s \in Sends,
         \A t \in Sends \ {s} : snd'[t] = snd[t],
         snd'[s].pc \notin {"store", "publish"},
         holder' = holder \/ (Locking(s) /\ Unlock(s))
  PROVE  (LockInv /\ PublishedInStoreOrder)'
<1>1. ASSUME NEW t \in Sends, Locking(t)'
      PROVE  /\ snd'[t].pc = snd[t].pc /\ snd'[t].conv = snd[t].conv
             /\ holder'[snd[t].conv] = holder[snd[t].conv]
  <2>1. t # s /\ snd'[t] = snd[t] /\ Locking(t)
    BY <1>1 DEF Locking
  <2>2. holder[snd[t].conv] = t /\ snd[t].conv \in Convs
    BY <2>1 DEF LockInv, Locking, TypeOK
  <2>3. CASE Locking(s) /\ Unlock(s)
    <3>1. snd[s].conv # snd[t].conv
      BY <2>1, <2>2, <2>3 DEF LockInv
    <3>2. QED  BY <2>1, <2>2, <2>3, <3>1 DEF Unlock, TypeOK
  <2>4. QED  BY <2>1, <2>3
<1>2. QED  BY <1>1, OrderFrame

\* Who gets the lock is the only one between ZADD and PUBLISH.
LEMMA OrderLock ==
  ASSUME TypeOK, LockInv, PublishedInStoreOrder, NEW s \in Sends, SendLock(s)
  PROVE  (LockInv /\ PublishedInStoreOrder)'
<1>1. /\ snd[s].pc = "lock" /\ snd[s].conv \in Convs
      /\ holder[snd[s].conv] = None /\ log' = log /\ pub' = pub
      /\ holder' = [holder EXCEPT ![snd[s].conv] = s]
      /\ snd'[s].pc = "store" /\ snd'[s].conv = snd[s].conv
      /\ \A t \in Sends \ {s} : snd'[t] = snd[t]
  BY DEF SendLock, Goto, TypeOK, SendRequest, redis
<1>2. ASSUME NEW t \in Sends
      PROVE  /\ Locking(t)' => holder'[snd'[t].conv] = t
             /\ snd'[t].pc = "publish" => LastStored(t)'
  <2>1. CASE t = s
    BY <1>1, <2>1 DEF TypeOK
  <2>2. CASE t # s
    <3>1. None \notin Sends
      BY ChatAssumption
    <3>2. Locking(t) => snd[t].conv # snd[s].conv
      BY <1>1, <3>1 DEF LockInv
    <3>3. Locking(t) => snd[t].conv \in Convs
      BY DEF Locking, TypeOK
    <3>4. QED
      BY <1>1, <2>2, <3>2, <3>3 DEF LockInv, Locking, LastStored, TypeOK
  <2>3. QED  BY <2>1, <2>2
<1>3. LockInv'
  BY <1>2 DEF LockInv
<1>4. PublishedInStoreOrder'
  BY <1>1 DEF PublishedInStoreOrder
<1>5. QED  BY <1>3, <1>4

\* What is stored now comes after everything that was published.
LEMMA OrderStore ==
  ASSUME TypeOK, LockInv, PublishedInStoreOrder, NEW s \in Sends, SendStore(s)
  PROVE  (LockInv /\ PublishedInStoreOrder)'
<1>1. /\ snd[s].pc = "store" /\ Locking(s) /\ snd[s].conv \in Convs
      /\ pub' = pub /\ log' = [log EXCEPT ![snd[s].conv] = Append(@, s)]
      /\ snd'[s].conv = snd[s].conv /\ snd'[s].pc \in {"publish", "err"}
      /\ snd'[s].pc = "publish" => holder' = holder
      /\ holder' = holder \/ Unlock(s)
      /\ \A t \in Sends \ {s} : snd'[t] = snd[t]
  <2>1. snd[s].pc = "store" /\ snd[s].conv \in Convs /\ snd[s] \in SendRequest
    BY DEF SendStore, TypeOK
  <2>2. CASE Goto(s, "publish") /\ UNCHANGED holder
    BY <2>1, <2>2 DEF SendStore, Goto, TypeOK, SendRequest, Locking
  <2>3. CASE Goto(s, "err") /\ Unlock(s)
    BY <2>1, <2>3 DEF SendStore, Goto, TypeOK, SendRequest, Locking
  <2>4. QED  BY <2>2, <2>3 DEF SendStore
<1>2. \A c \in Convs :
        /\ log[c] \in Seq(Sends) /\ Len(log[c]) \in Nat
        /\ Len(log'[c]) \in Nat /\ Len(log[c]) <= Len(log'[c])
        /\ \A i \in 1..Len(log[c]) : log'[c][i] = log[c][i]
        /\ c # snd[s].conv => log'[c] = log[c]
  BY <1>1 DEF TypeOK
<1>3. /\ log'[snd[s].conv] # <<>>
      /\ log'[snd[s].conv][Len(log'[snd[s].conv])] = s
  <2>1. log'[snd[s].conv] = Append(log[snd[s].conv], s)
    BY <1>1 DEF TypeOK
  <2>2. log[snd[s].conv] \in Seq(Sends)
    BY <1>1 DEF TypeOK
  <2>3. QED  BY <2>1, <2>2, AppendIs
<1>4. ASSUME NEW t \in Sends
      PROVE  /\ Locking(t)' => holder'[snd'[t].conv] = t
             /\ snd'[t].pc = "publish" => LastStored(t)'
  <2>1. CASE t = s
    BY <1>1, <1>3, <2>1 DEF LockInv, Locking, LastStored
  <2>2. CASE t # s
    <3>1. Locking(t) => snd[t].conv # snd[s].conv /\ snd[t].conv \in Convs
      BY <1>1, <2>2 DEF LockInv, Locking, TypeOK
    <3>2. snd'[t] = snd[t]
      BY <1>1, <2>2
    <3>3. Locking(t) => holder'[snd[t].conv] = holder[snd[t].conv]
      BY <1>1, <3>1 DEF Unlock, TypeOK
    <3>4. QED
      BY <1>2, <3>1, <3>2, <3>3 DEF LockInv, Locking, LastStored
  <2>3. QED  BY <2>1, <2>2
<1>5. LockInv'
  BY <1>4 DEF LockInv
<1>6. ASSUME NEW c \in Convs PROVE OrderOf(c)'
  <2>1. OrderOf(c) /\ pub'[c] = pub[c] /\ log[c] \in Seq(Sends)
    BY <1>1, OrderSplit DEF OrderInAll, TypeOK
  <2>2. log'[c] = log[c] \/ log'[c] = Append(log[c], s)
    BY <1>1 DEF TypeOK
  <2>3. ASSUME NEW j \in 1..Len(pub[c]) PROVE Preceded(log'[c], pub[c], j)
    BY <2>1, <2>2, PrecededStored DEF OrderOf
  <2>4. QED  BY <2>1, <2>3 DEF OrderOf
<1>7. PublishedInStoreOrder'
  <2>1. OrderInAll'
    BY <1>6 DEF OrderInAll
  <2>2. QED  BY <2>1, OrderSplit, PTL
<1>8. QED  BY <1>5, <1>7

\* What is published now was stored last.
LEMMA OrderPublish ==
  ASSUME TypeOK, LockInv, PublishedInStoreOrder, NEW s \in Sends, SendPublish(s)
  PROVE  (LockInv /\ PublishedInStoreOrder)'
<1>1. /\ snd[s].pc = "publish" /\ Locking(s) /\ snd[s].conv \in Convs
      /\ log' = log /\ pub' = [pub EXCEPT ![snd[s].conv] = Append(@, s)]
      /\ Unlock(s) /\ snd'[s].pc \notin {"store", "publish"}
      /\ \A t \in Sends \ {s} : snd'[t] = snd[t]
  <2>1. snd[s].pc = "publish" /\ snd[s].conv \in Convs /\ snd[s] \in SendRequest
    BY DEF SendPublish, TypeOK
  <2>2. PICK pc \in {"members", "err"} : Goto(s, pc)
    BY DEF SendPublish
  <2>3. QED  BY <2>1, <2>2 DEF SendPublish, Goto, TypeOK, SendRequest, Locking
<1>2. LockInv'
  <2>1. ASSUME NEW t \in Sends, Locking(t)'
        PROVE  /\ holder'[snd'[t].conv] = t
               /\ snd'[t].pc = "publish" => LastStored(t)'
    <3>1. t # s /\ snd'[t] = snd[t] /\ Locking(t)
      BY <1>1, <2>1 DEF Locking
    <3>2. snd[t].conv # snd[s].conv /\ snd[t].conv \in Convs
      BY <1>1, <3>1 DEF LockInv, Locking, TypeOK
    <3>3. QED
      BY <1>1, <3>1, <3>2 DEF LockInv, LastStored, Unlock, TypeOK
  <2>2. QED  BY <2>1 DEF LockInv, Locking
<1>3. ASSUME NEW c \in Convs PROVE OrderOf(c)'
  <2>1. /\ OrderOf(c) /\ log'[c] = log[c]
        /\ log[c] \in Seq(Sends) /\ pub[c] \in Seq(Sends)
    BY <1>1, OrderSplit DEF OrderInAll, TypeOK
  <2>2. CASE c # snd[s].conv
    <3>1. pub'[c] = pub[c]
      BY <1>1, <2>2 DEF TypeOK
    <3>2. QED  BY <2>1, <3>1 DEF OrderOf
  <2>3. CASE c = snd[s].conv
    <3>1. /\ pub'[c] = Append(pub[c], s)
          /\ log[c] # <<>> /\ log[c][Len(log[c])] = s
      BY <1>1, <2>3 DEF TypeOK, LockInv, LastStored
    <3>2. ASSUME NEW j \in 1..Len(Append(pub[c], s))
          PROVE  Preceded(log[c], Append(pub[c], s), j)
      <4>1. CASE j \in 1..Len(pub[c])
        BY <2>1, <4>1, PrecededPublished DEF OrderOf
      <4>2. CASE j = Len(pub[c]) + 1
        BY <2>1, <3>1, <4>2, LastPreceded DEF OrderOf
      <4>3. QED  BY <2>1, <4>1, <4>2, AppendIs
    <3>3. QED  BY <2>1, <3>1, <3>2 DEF OrderOf
  <2>4. QED  BY <2>2, <2>3
<1>4. PublishedInStoreOrder'
  <2>1. OrderInAll'
    BY <1>3 DEF OrderInAll
  <2>2. QED  BY <2>1, OrderSplit, PTL
<1>5. QED  BY <1>2, <1>4

\* Every step of a request keeps the order: the others store and publish nothing.
LEMMA OrderSend ==
  ASSUME TypeOK, LockInv, PublishedInStoreOrder, NEW s \in Sends, SendStep(s)
  PROVE  (LockInv /\ PublishedInStoreOrder)'
<1>1. snd \in [Sends -> SendRequest] /\ snd[s] \in SendRequest
  BY DEF TypeOK
<1>2. ASSUME SendMembers(s) \/ SendFails(s)
             \/ \E p \in Users : SendActive(s, p) \/ BumpRead(s, p)
      PROVE  /\ \A t \in Sends \ {s} : snd'[t] = snd[t]
             /\ snd'[s].pc \notin {"store", "publish"}
             /\ log' = log /\ pub' = pub
             /\ holder' = holder \/ (Locking(s) /\ Unlock(s))
  <2>1. CASE SendMembers(s)
    BY <1>1, <2>1 DEF SendMembers, Goto, SendRequest, redis
  <2>2. CASE SendFails(s)
    BY <1>1, <2>2 DEF SendFails, Goto, SendRequest, redis, Locking
  <2>3. ASSUME NEW p \in Users, SendActive(s, p)
        PROVE  /\ \A t \in Sends \ {s} : snd'[t] = snd[t]
               /\ snd'[s].pc \notin {"store", "publish"}
               /\ log' = log /\ pub' = pub /\ holder' = holder
    BY <1>1, <2>3 DEF SendActive, SendRequest, redis
  <2>4. ASSUME NEW p \in Users, BumpRead(s, p)
        PROVE  /\ \A t \in Sends \ {s} : snd'[t] = snd[t]
               /\ snd'[s].pc \notin {"store", "publish"}
               /\ log' = log /\ pub' = pub /\ holder' = holder
    BY <1>1, <2>4 DEF BumpRead, Goto, SendRequest, redis
  <2>5. QED  BY <1>2, <2>1, <2>2, <2>3, <2>4
<1>3. ASSUME BumpWrite(s)
      PROVE  /\ \A t \in Sends \ {s} : snd'[t] = snd[t]
             /\ snd'[s].pc \notin {"store", "publish"}
             /\ log' = log /\ pub' = pub /\ holder' = holder
  <2>1. PICK pc \in {"bump", "ok", "err"} :
          snd' = [snd EXCEPT ![s].pc = pc,
                             ![s].inactive = snd[s].inactive \ {snd[s].cur},
                             ![s].cur = None, ![s].val = 0]
    BY <1>3 DEF BumpWrite
  <2>2. /\ \A t \in Sends \ {s} : snd'[t] = snd[t]
        /\ snd'[s].pc = pc
    BY <1>1, <2>1 DEF SendRequest
  <2>3. QED  BY <1>3, <2>2 DEF BumpWrite
<1>4. CASE SendLock(s)
  BY <1>4, OrderLock
<1>5. CASE SendStore(s)
  BY <1>5, OrderStore
<1>6. CASE SendPublish(s)
  BY <1>6, OrderPublish
<1>7. CASE SendMembers(s) \/ SendFails(s)
             \/ \E p \in Users : SendActive(s, p) \/ BumpRead(s, p)
  BY <1>2, <1>7, OrderLeaves
<1>8. CASE BumpWrite(s)
  BY <1>3, <1>8, OrderLeaves
<1>9. QED  BY <1>4, <1>5, <1>6, <1>7, <1>8 DEF SendStep

\* And so does every step of the system: a restart frees the locks and the
\* requests together.
LEMMA OrderStep ==
  TypeOK /\ LockInv /\ PublishedInStoreOrder /\ [Next]_vars
    => (LockInv /\ PublishedInStoreOrder)'
<1> SUFFICES ASSUME TypeOK, LockInv, PublishedInStoreOrder, [Next]_vars
             PROVE  (LockInv /\ PublishedInStoreOrder)'
  OBVIOUS
<1>1. ASSUME log' = log, pub' = pub, snd' = snd, holder' = holder
      PROVE  (LockInv /\ PublishedInStoreOrder)'
  BY <1>1, OrderFrame DEF Locking
<1>2. CASE \E c \in Convs : \E u, v \in Users : CreateConversation(c, u, v)
  BY <1>1, <1>2 DEF CreateConversation, redis
<1>3. ASSUME NEW c \in Convs, CreateStep(c)
      PROVE  log' = log /\ pub' = pub /\ snd' = snd /\ holder' = holder
  BY <1>3 DEF CreateStep, CreateFails, StoreCopy, redis
<1>4. ASSUME NEW s \in Sends, NEW u \in Users, NEW c \in Convs,
             SendBegin(s, u, c)
      PROVE  (LockInv /\ PublishedInStoreOrder)'
  <2>1. /\ \A t \in Sends \ {s} : snd'[t] = snd[t]
        /\ snd'[s].pc \notin {"store", "publish"}
        /\ log' = log /\ pub' = pub /\ holder' = holder
    BY <1>4 DEF SendBegin, TypeOK, SendRequest, redis
  <2>2. QED  BY <2>1, OrderLeaves
<1>5. ASSUME NEW l \in Streams, StreamStep(l)
      PROVE  log' = log /\ pub' = pub /\ snd' = snd /\ holder' = holder
  BY <1>5 DEF StreamStep, StreamWrite, StreamWriteFails, StreamSetActive,
     StreamClose, redis
<1>6. CASE \E l \in Streams, u \in Users, c \in Convs : StreamRead(l, u, c)
  BY <1>1, <1>6 DEF StreamRead, redis
<1>7. CASE Crash
  <2>1. /\ log' = log /\ pub' = pub
        /\ \A t \in Sends : ~Locking(t)'
    BY <1>7 DEF Crash, InFlight, Locking, TypeOK, SendRequest, redis
  <2>2. QED  BY <2>1, OrderFrame
<1>8. CASE Finished \/ UNCHANGED vars
  BY <1>1, <1>8 DEF Finished, vars
<1>9. QED
  BY <1>1, <1>2, <1>3, <1>4, <1>5, <1>6, <1>7, <1>8, OrderSend DEF Next

\* The lock of the messages key (usecase.go) spans ZADD and PUBLISH: however
\* many SendMessage requests run, fail or are lost in a restart, what
\* subscribers of a conversation hear is in the order of its history.
THEOREM PublishedInStoreOrderCorrect == Spec => []PublishedInStoreOrder
<1>1. Init => LockInv /\ PublishedInStoreOrder
  BY DEF Init, LockInv, Locking, PublishedInStoreOrder
<1>2. QED  BY <1>1, OrderStep, TypeCorrect, PTL DEF Spec

---------------------------------------------------------------------------
(* AcknowledgedIsComplete. A request has stored, published and counted     *)
(* what comes before the command it is at; participants never change, and  *)
(* nobody's own key holds an active conversation.                          *)

\* The messages published on c's channel
Heard(c) == {pub[c][i] : i \in 1..Len(pub[c])}

CopiesOK ==
  /\ \A c \in Convs : creating[c] \subseteq members[c]
  /\ \A u \in Users, c \in Convs : <<u, c>> \in rows => members[c] # {}
  /\ \A u \in Users : active[u] = None

\* How far s has come
SoFar(s) ==
  /\ snd[s].pc \in {"publish", "members", "active", "bump", "write", "ok"}
       => s \in Stored(snd[s].conv)
  /\ snd[s].pc \in {"members", "active", "bump", "write", "ok"}
       => s \in Heard(snd[s].conv)
  /\ snd[s].pc \in {"active", "bump", "write", "ok"}
       => members[snd[s].conv] # {}
  /\ snd[s].pc = "active"
       => members[snd[s].conv] \subseteq snd[s].todo \cup snd[s].inactive
  /\ snd[s].pc \in {"bump", "write"}
       => \A p \in members[snd[s].conv] :
            p \in snd[s].inactive \/ <<p, s>> \in counted
  /\ snd[s].pc = "ok"
       => \A p \in members[snd[s].conv] : <<p, s>> \in counted

\* Participants and copies only appear, and only a stream writes an active key:
\* its conversation's, which is no user's.
LEMMA CopiesStep == TypeOK /\ CopiesOK /\ [Next]_vars => CopiesOK'
<1> SUFFICES ASSUME TypeOK, CopiesOK, [Next]_vars PROVE CopiesOK'
  OBVIOUS
<1>1. ASSUME members' = members, creating' = creating, rows' = rows,
             active' = active
      PROVE  CopiesOK'
  BY <1>1 DEF CopiesOK
<1>2. ASSUME NEW c \in Convs, NEW u \in Users, NEW v \in Users,
             CreateConversation(c, u, v)
      PROVE  CopiesOK'
  BY <1>2 DEF CreateConversation, CopiesOK, TypeOK, redis
<1>3. ASSUME NEW c \in Convs, CreateStep(c) PROVE CopiesOK'
  <2>1. ASSUME NEW u \in Users, StoreCopy(c, u) PROVE CopiesOK'
    BY <2>1 DEF StoreCopy, CopiesOK, TypeOK
  <2>2. CASE CreateFails(c)
    BY <2>2 DEF CreateFails, CopiesOK, TypeOK, redis
  <2>3. QED  BY <1>3, <2>1, <2>2 DEF CreateStep
<1>4. ASSUME NEW s \in Sends, SendStep(s)
      PROVE  /\ members' = members /\ creating' = creating /\ rows' = rows
             /\ active' = active
  BY <1>4 DEF SendStep, SendLock, SendStore, SendPublish, SendMembers,
     SendActive, BumpRead, BumpWrite, SendFails, redis
<1>5. CASE \E s \in Sends, u \in Users, c \in Convs : SendBegin(s, u, c)
  BY <1>1, <1>5 DEF SendBegin, redis
<1>6. ASSUME NEW l \in Streams, StreamStep(l) PROVE CopiesOK'
  <2>1. CASE StreamWrite(l) \/ StreamWriteFails(l)
    BY <1>1, <2>1 DEF StreamWrite, StreamWriteFails, redis
  <2>2. CASE StreamSetActive(l)
    <3>1. str[l].conv \in Convs /\ Users \cap Convs = {}
      BY <2>2, ChatAssumption DEF StreamSetActive, TypeOK
    <3>2. \A u \in Users : active'[u] = active[u]
      BY <2>2, <3>1 DEF StreamSetActive, TypeOK, Keys
    <3>3. QED  BY <2>2, <3>2 DEF StreamSetActive, CopiesOK
  <2>3. CASE StreamClose(l)
    <3>1. \A u \in Users : active'[u] = None
      BY <2>3 DEF StreamClose, CopiesOK, TypeOK, Keys
    <3>2. QED  BY <2>3, <3>1 DEF StreamClose, CopiesOK
  <2>4. QED  BY <1>6, <2>1, <2>2, <2>3 DEF StreamStep
<1>7. CASE \E l \in Streams, u \in Users, c \in Convs : StreamRead(l, u, c)
  BY <1>1, <1>7 DEF StreamRead, redis
<1>8. CASE Crash
  BY <1>8 DEF Crash, CopiesOK, redis
<1>9. CASE Finished \/ UNCHANGED vars
  BY <1>1, <1>9 DEF Finished, vars
<1>10. QED
  BY <1>1, <1>2, <1>3, <1>4, <1>5, <1>6, <1>7, <1>8, <1>9 DEF Next

\* Histories and channels only grow.
LEMMA GrowStep ==
  ASSUME TypeOK, [Next]_vars, NEW c \in Convs
  PROVE  /\ Stored(c) \subseteq Stored(c)' /\ Heard(c) \subseteq Heard(c)'
         /\ members[c] # {} => members'[c] = members[c]
         /\ counted \subseteq counted'
<1>1. ASSUME log'[c] = log[c] \/ \E s \in Sends : log'[c] = Append(log[c], s)
      PROVE  Stored(c) \subseteq Stored(c)'
  <2>1. log[c] \in Seq(Sends)
    BY DEF TypeOK
  <2>2. QED  BY <1>1, <2>1, AppendIs DEF Stored
<1>2. ASSUME pub'[c] = pub[c] \/ \E s \in Sends : pub'[c] = Append(pub[c], s)
      PROVE  Heard(c) \subseteq Heard(c)'
  <2>1. pub[c] \in Seq(Sends)
    BY DEF TypeOK
  <2>2. QED  BY <1>2, <2>1, AppendIs DEF Heard
<1>3. ASSUME NEW s \in Sends, SendStep(s)
      PROVE  /\ members' = members /\ counted \subseteq counted'
             /\ \/ log' = log
                \/ log' = [log EXCEPT ![snd[s].conv] = Append(@, s)]
             /\ \/ pub' = pub
                \/ pub' = [pub EXCEPT ![snd[s].conv] = Append(@, s)]
  BY <1>3 DEF SendStep, SendLock, SendStore, SendPublish, SendMembers,
     SendActive, BumpRead, BumpWrite, SendFails, redis, history
<1>4. ASSUME NEW d \in Convs, NEW u \in Users, NEW v \in Users,
             CreateConversation(d, u, v)
      PROVE  /\ log' = log /\ pub' = pub /\ counted' = counted
             /\ members[c] # {} => members'[c] = members[c]
  BY <1>4 DEF CreateConversation, TypeOK, redis, history
<1>5. CASE ~(\E s \in Sends : SendStep(s))
           /\ ~(\E d \in Convs : \E u, v \in Users : CreateConversation(d, u, v))
  <2>1. members' = members /\ log' = log /\ pub' = pub /\ counted' = counted
    BY <1>5 DEF Next, CreateStep, CreateFails, StoreCopy, SendBegin, StreamStep,
       StreamWrite, StreamWriteFails, StreamSetActive, StreamClose, StreamRead,
       Crash, Finished, vars, redis, history
  <2>2. QED  BY <1>1, <1>2, <2>1
<1>6. ASSUME NEW s \in Sends, SendStep(s)
      PROVE  /\ log'[c] = log[c] \/ log'[c] = Append(log[c], s)
             /\ pub'[c] = pub[c] \/ pub'[c] = Append(pub[c], s)
  <2>1. log \in [Convs -> Seq(Sends)] /\ pub \in [Convs -> Seq(Sends)]
    BY DEF TypeOK
  <2>2. log'[c] = log[c] \/ log'[c] = Append(log[c], s)
    <3>1. CASE log' = log
      BY <3>1
    <3>2. CASE log' = [log EXCEPT ![snd[s].conv] = Append(@, s)]
      BY <2>1, <3>2
    <3>3. QED  BY <1>3, <1>6, <3>1, <3>2
  <2>3. pub'[c] = pub[c] \/ pub'[c] = Append(pub[c], s)
    <3>1. CASE pub' = pub
      BY <3>1
    <3>2. CASE pub' = [pub EXCEPT ![snd[s].conv] = Append(@, s)]
      BY <2>1, <3>2
    <3>3. QED  BY <1>3, <1>6, <3>1, <3>2
  <2>4. QED  BY <2>2, <2>3
<1>7. CASE \E s \in Sends : SendStep(s)
  BY <1>1, <1>2, <1>3, <1>6, <1>7
<1>8. CASE \E d \in Convs : \E u, v \in Users : CreateConversation(d, u, v)
  BY <1>1, <1>2, <1>4, <1>8
<1>9. QED  BY <1>5, <1>7, <1>8

\* A request that does not move keeps what it has done.
LEMMA SoFarKept ==
  ASSUME TypeOK, TypeOK', CopiesOK, [Next]_vars, NEW t \in Sends, SoFar(t),
         \/ snd'[t] = snd[t]
         \/ snd'[t].pc \in {"idle", "lock", "store", "err", "lost"}
  PROVE  SoFar(t)'
<1>1. CASE snd'[t].pc \in {"idle", "lock", "store", "err", "lost"}
  BY <1>1 DEF SoFar
<1>2. CASE snd'[t] = snd[t] /\ snd[t].pc = "idle"
  BY <1>2 DEF SoFar
<1>3. CASE snd'[t] = snd[t] /\ snd[t].pc # "idle"
  <2>1. PICK c \in Convs : c = snd[t].conv /\ c = snd'[t].conv
    BY <1>3 DEF TypeOK
  <2>2. /\ Stored(c) \subseteq Stored(c)' /\ Heard(c) \subseteq Heard(c)'
        /\ members[c] # {} => members'[c] = members[c]
        /\ counted \subseteq counted'
    BY GrowStep
  <2>3. Stored(snd[t].conv)' = Stored(c)' /\ Heard(snd[t].conv)' = Heard(c)'
    BY <2>1 DEF Stored, Heard
  <2>4. QED  BY <1>3, <2>1, <2>2, <2>3 DEF SoFar
<1>4. QED  BY <1>1, <1>2, <1>3

\* What a request knows after its own step
LEMMA SoFarSend ==
  ASSUME TypeOK, TypeOK', CopiesOK, [Next]_vars, NEW s \in Sends, SoFar(s),
         SendStep(s)
  PROVE  SoFar(s)'
<1>1. /\ snd[s].pc # "idle" /\ snd[s].pc # "ok" /\ snd[s] \in SendRequest
      /\ snd \in [Sends -> SendRequest] /\ members' = members
  BY DEF SendStep, SendLock, SendStore, SendPublish, SendMembers,
     SendActive, BumpRead, BumpWrite, SendFails, TypeOK, redis
<1>2. PICK c \in Convs : c = snd[s].conv
  BY <1>1 DEF TypeOK
<1>3. /\ Stored(c) \subseteq Stored(c)' /\ Heard(c) \subseteq Heard(c)'
      /\ counted \subseteq counted' /\ members' = members
  BY <1>1, GrowStep
<1>4. ASSUME snd'[s].conv = c
      PROVE  Stored(snd[s].conv)' = Stored(c)' /\ Heard(snd[s].conv)' = Heard(c)'
  BY <1>4 DEF Stored, Heard
<1>5. CASE SendLock(s) \/ SendFails(s)
  BY <1>1, <1>5 DEF SendLock, SendFails, Goto, SendRequest, SoFar
<1>6. CASE SendStore(s)
  <2>1. PICK pc \in {"publish", "err"} : Goto(s, pc)
    BY <1>6 DEF SendStore
  <2>2. snd'[s].pc = pc /\ snd'[s].conv = c
    BY <1>1, <1>2, <2>1 DEF Goto, SendRequest
  <2>3. s \in Stored(c)'
    <3>1. log'[c] = Append(log[c], s) /\ log[c] \in Seq(Sends)
      BY <1>2, <1>6 DEF SendStore, TypeOK
    <3>2. QED  BY <3>1, AppendIs DEF Stored
  <2>4. QED  BY <1>4, <2>2, <2>3 DEF SoFar
<1>7. CASE SendPublish(s)
  <2>1. PICK pc \in {"members", "err"} : Goto(s, pc)
    BY <1>7 DEF SendPublish
  <2>2. snd'[s].pc = pc /\ snd'[s].conv = c
    BY <1>1, <1>2, <2>1 DEF Goto, SendRequest
  <2>3. s \in Heard(c)'
    <3>1. pub'[c] = Append(pub[c], s) /\ pub[c] \in Seq(Sends)
      BY <1>2, <1>7 DEF SendPublish, TypeOK
    <3>2. QED  BY <3>1, AppendIs DEF Heard
  <2>4. s \in Stored(c)'
    BY <1>2, <1>3, <1>7 DEF SendPublish, SoFar
  <2>5. QED  BY <1>4, <2>2, <2>3, <2>4 DEF SoFar
<1>8. CASE SendMembers(s)
  <2>1. s \in Stored(c)' /\ s \in Heard(c)'
    BY <1>2, <1>3, <1>8 DEF SendMembers, SoFar
  <2>2. CASE Goto(s, "err")
    BY <1>1, <2>2 DEF Goto, SendRequest, SoFar
  <2>3. CASE /\ <<snd[s].user, c>> \in rows
             /\ snd' = [snd EXCEPT ![s].pc = "active", ![s].todo = members[c]]
    <3>1. snd'[s].pc = "active" /\ snd'[s].conv = c /\ snd'[s].todo = members[c]
      BY <1>1, <1>2, <2>3 DEF SendRequest
    <3>2. members[c] # {}
      BY <1>1, <2>3 DEF CopiesOK, TypeOK
    <3>3. QED  BY <1>3, <1>4, <2>1, <3>1, <3>2 DEF SoFar
  <2>4. QED  BY <1>2, <1>8, <2>2, <2>3 DEF SendMembers
<1>9. ASSUME NEW p \in Users, SendActive(s, p) PROVE SoFar(s)'
  <2>1. /\ s \in Stored(c)' /\ s \in Heard(c)' /\ members[c] # {}
        /\ members[c] \subseteq snd[s].todo \cup snd[s].inactive
    BY <1>2, <1>3, <1>9 DEF SendActive, SoFar
  <2>2. active[p] # c
    BY ChatAssumption DEF CopiesOK
  <2>3. /\ snd'[s].conv = c /\ snd'[s].todo = snd[s].todo \ {p}
        /\ snd'[s].inactive = snd[s].inactive \cup {p}
        /\ snd'[s].pc = IF snd[s].todo \ {p} # {} THEN "active"
                        ELSE IF snd[s].inactive \cup {p} # {} THEN "bump"
                        ELSE "ok"
    BY <1>1, <1>2, <1>9, <2>2 DEF SendActive, SendRequest
  <2>4. QED  BY <1>3, <1>4, <2>1, <2>3 DEF SoFar
<1>10. ASSUME NEW p \in Users, BumpRead(s, p) PROVE SoFar(s)'
  <2>1. /\ s \in Stored(c)' /\ s \in Heard(c)' /\ members[c] # {}
        /\ \A q \in members[c] : q \in snd[s].inactive \/ <<q, s>> \in counted
    BY <1>2, <1>3, <1>10 DEF BumpRead, SoFar
  <2>2. /\ snd'[s].conv = c /\ snd'[s].inactive = snd[s].inactive
        /\ snd'[s].pc \in {"write", "err"}
    <3>1. CASE Goto(s, "err")
      BY <1>1, <1>2, <3>1 DEF Goto, SendRequest
    <3>2. CASE snd' = [snd EXCEPT ![s].pc = "write", ![s].cur = p,
                                  ![s].val = unread[<<p, c>>]]
      BY <1>1, <1>2, <3>2 DEF SendRequest
    <3>3. QED  BY <1>2, <1>10, <3>1, <3>2 DEF BumpRead
  <2>3. QED  BY <1>3, <1>4, <2>1, <2>2 DEF SoFar
<1>11. CASE BumpWrite(s)
  <2>1. /\ s \in Stored(c)' /\ s \in Heard(c)' /\ members[c] # {}
        /\ \A q \in members[c] : q \in snd[s].inactive \/ <<q, s>> \in counted
    BY <1>2, <1>3, <1>11 DEF BumpWrite, SoFar
  <2>2. PICK pc :
          /\ pc = "err" \/ pc = (IF snd[s].inactive \ {snd[s].cur} # {}
                                 THEN "bump" ELSE "ok")
          /\ snd' = [snd EXCEPT ![s].pc = pc,
                               ![s].inactive = snd[s].inactive \ {snd[s].cur},
                               ![s].cur = None, ![s].val = 0]
    BY <1>11 DEF BumpWrite
  <2>3. /\ snd'[s].pc = pc /\ snd'[s].conv = c
        /\ snd'[s].inactive = snd[s].inactive \ {snd[s].cur}
    BY <1>1, <1>2, <2>2 DEF SendRequest
  <2>4. \A q \in members[c] :
          q \in snd[s].inactive \ {snd[s].cur} \/ <<q, s>> \in counted'
    BY <1>11, <2>1 DEF BumpWrite
  <2>5. pc = "ok" => \A q \in members[c] : <<q, s>> \in counted'
    BY <2>2, <2>4
  <2>6. QED  BY <1>3, <1>4, <2>1, <2>2, <2>3, <2>4, <2>5 DEF SoFar
<1>12. QED
  BY <1>5, <1>6, <1>7, <1>8, <1>9, <1>10, <1>11 DEF SendStep

AckInv == CopiesOK /\ \A s \in Sends : SoFar(s)

\* After any step of the system, whoever takes it
LEMMA AckStep == TypeOK /\ TypeOK' /\ AckInv /\ [Next]_vars => AckInv'
<1> SUFFICES ASSUME TypeOK, TypeOK', AckInv, [Next]_vars, NEW t \in Sends
             PROVE  SoFar(t)'
  BY CopiesStep DEF AckInv
<1>1. CopiesOK /\ SoFar(t) /\ snd \in [Sends -> SendRequest]
  BY DEF AckInv, TypeOK
<1>2. CASE SendStep(t)
  BY <1>1, <1>2, SoFarSend
<1>3. ASSUME NEW s \in Sends, SendStep(s), s # t PROVE snd'[t] = snd[t]
  BY <1>1, <1>3 DEF SendStep, SendLock, SendStore, SendPublish, SendMembers,
     SendActive, BumpRead, BumpWrite, SendFails, Goto
<1>4. ASSUME NEW s \in Sends, NEW u \in Users, NEW c \in Convs,
             SendBegin(s, u, c)
      PROVE  snd'[t] = snd[t] \/ snd'[t].pc = "lock"
  BY <1>1, <1>4 DEF SendBegin, SendRequest
<1>5. CASE Crash
  <2>1. snd'[t] = snd[t] \/ snd'[t].pc = "lost"
    BY <1>1, <1>5 DEF Crash, SendRequest
  <2>2. QED  BY <1>1, <2>1, SoFarKept
<1>6. CASE /\ ~Crash /\ ~(\E s \in Sends : SendStep(s))
           /\ ~(\E s \in Sends, u \in Users, c \in Convs : SendBegin(s, u, c))
  <2>1. snd' = snd
    BY <1>6 DEF Next, CreateConversation, CreateStep, CreateFails, StoreCopy,
       StreamStep, StreamWrite, StreamWriteFails, StreamSetActive, StreamClose,
       StreamRead, Finished, vars
  <2>2. QED  BY <1>1, <2>1, SoFarKept
<1>7. QED  BY <1>1, <1>2, <1>3, <1>4, <1>5, <1>6, SoFarKept

\* How far each request has come, in every history
LEMMA AckInvCorrect == Spec => []AckInv
<1>1. Init => AckInv
  BY DEF Init, AckInv, CopiesOK, SoFar, Keys
<1>2. QED  BY <1>1, AckStep, TypeCorrect, PTL DEF Spec

\* What SendMessage acknowledged is stored, was published, and was counted for
\* every participant whose active conversation it is not: no error on the way
\* (controller.go, usecase.go) is swallowed, whatever else runs or fails.
THEOREM AcknowledgedIsCompleteCorrect == Spec => []AcknowledgedIsComplete
<1>1. AckInv => AcknowledgedIsComplete
  BY DEF AckInv, SoFar, Heard, AcknowledgedIsComplete
<1>2. QED  BY <1>1, AckInvCorrect, PTL
---------------------------------------------------------------------------
(* What a count of unread messages is worth.  A request between HGET and   *)
(* HSET holds the count that is stored, unless somebody has written the    *)
(* copy since; only then does it write a wrong one.                        *)

\* A copy that is still to be stored is not there; where there is no copy
\* nothing has been counted.
FreshOK ==
  /\ \A c \in Convs : \A u \in creating[c] : <<u, c>> \notin rows
  /\ \A p \in Pairs : p \notin rows => since[p] = 0 /\ unread[p] = 0

\* What the request t holds between HGET and HSET
HoldsOK(t) ==
  snd[t].pc = "write" =>
    /\ <<snd[t].cur, snd[t].conv>> \in rows
    /\ t \notin stale => snd[t].val = unread[<<snd[t].cur, snd[t].conv>>]

BadgeInv ==
  /\ FreshOK
  /\ \A t \in Sends : HoldsOK(t)
  /\ BadgeShows
  /\ ExactUnlessRaced
---------------------------------------------------------------------------
\* A step that writes no count
LEMMA BadgeFrame ==
  ASSUME TypeOK, BadgeInv, rows' = rows, unread' = unread, since' = since,
         raced' = raced, \A c \in Convs : creating'[c] \subseteq creating[c],
         \A t \in Sends : snd'[t].pc = "write" =>
           snd'[t] = snd[t] /\ (t \in stale => t \in stale')
  PROVE  BadgeInv'
<1>1. FreshOK'
  BY DEF BadgeInv, FreshOK
<1>2. \A t \in Sends : HoldsOK(t)'
  BY DEF BadgeInv, HoldsOK
<1>3. BadgeShows' /\ ExactUnlessRaced'
  BY DEF BadgeInv, BadgeShows, ExactUnlessRaced
<1>4. QED  BY <1>1, <1>2, <1>3 DEF BadgeInv

\* A step that writes the count n of u's copy of c: requests other than r that
\* have read the copy hold an outdated one now, and it is known of them.
LEMMA HSetHolds ==
  ASSUME TypeOK, NEW u \in Users, NEW c \in Convs, NEW n, NEW r,
         HSetCount(r, u, c, n), rows \subseteq rows',
         NEW t \in Sends, t # r, snd'[t] = snd[t], HoldsOK(t)
  PROVE  HoldsOK(t)'
<1> SUFFICES ASSUME snd[t].pc = "write"
             PROVE  /\ <<snd[t].cur, snd[t].conv>> \in rows'
                    /\ t \notin stale' =>
                         snd[t].val = unread'[<<snd[t].cur, snd[t].conv>>]
  BY DEF HoldsOK
<1>1. PICK q \in Users, d \in Convs : q = snd[t].cur /\ d = snd[t].conv
  BY DEF TypeOK
<1>2. /\ unread' = [unread EXCEPT ![<<u, c>>] = n]
      /\ stale' = (stale \cup Incrementing(u, c)) \ {r}
  BY DEF HSetCount
<1>3. CASE q = u /\ d = c
  BY <1>1, <1>2, <1>3 DEF Incrementing, HoldsOK
<1>4. CASE ~(q = u /\ d = c)
  <2>1. unread'[<<q, d>>] = unread[<<q, d>>]
    BY <1>2, <1>4 DEF TypeOK, Pairs
  <2>2. QED  BY <1>1, <1>2, <2>1 DEF HoldsOK
<1>5. QED  BY <1>3, <1>4

\* HSET writes one count.
LEMMA HSetOf ==
  ASSUME TypeOK, NEW u \in Users, NEW c \in Convs, NEW n, NEW r,
         HSetCount(r, u, c, n)
  PROVE  /\ unread'[<<u, c>>] = n
         /\ \A p \in Pairs : p # <<u, c>> => unread'[p] = unread[p]
  BY DEF HSetCount, TypeOK, Pairs

\* CreateConversation stores a copy: it was not there, so nothing was counted.
LEMMA BadgeStoreCopy ==
  ASSUME TypeOK, BadgeInv, NEW c \in Convs, NEW u \in Users, StoreCopy(c, u)
  PROVE  BadgeInv'
<1>1. /\ <<u, c>> \in Pairs /\ <<u, c>> \notin rows
      /\ since[<<u, c>>] = 0 /\ u \in creating[c]
      /\ rows' = rows \cup {<<u, c>>} /\ HSetCount(None, u, c, 0)
      /\ since' = since /\ raced' = raced /\ snd' = snd
  BY DEF StoreCopy, BadgeInv, FreshOK, Pairs
<1>2. /\ unread'[<<u, c>>] = 0
      /\ \A p \in Pairs : p # <<u, c>> => unread'[p] = unread[p]
  BY <1>1, HSetOf
<1>3. FreshOK'
  <2>1. \A d \in Convs : \A v \in creating'[d] :
          v \in creating[d] /\ <<v, d>> # <<u, c>>
    BY DEF StoreCopy, TypeOK
  <2>2. QED  BY <1>1, <1>2, <2>1 DEF BadgeInv, FreshOK
<1>4. \A t \in Sends : HoldsOK(t)'
  <2>1. \A t \in Sends : t # None
    BY ChatAssumption
  <2>2. QED  BY <1>1, <2>1, HSetHolds DEF BadgeInv
<1>5. BadgeShows' /\ ExactUnlessRaced'
  BY <1>1, <1>2 DEF BadgeInv, BadgeShows, ExactUnlessRaced
<1>6. QED  BY <1>3, <1>4, <1>5 DEF BadgeInv

\* The HSET of an increment: a request that was not overtaken writes one more
\* than what is stored, and one that was makes the copy a raced one.
LEMMA BadgeBumpWrite ==
  ASSUME TypeOK, BadgeInv, NEW s \in Sends, BumpWrite(s)
  PROVE  BadgeInv'
<1>1. PICK u \in Users, c \in Convs : u = snd[s].cur /\ c = snd[s].conv
  BY DEF BumpWrite, TypeOK
<1>2. PICK row \in Pairs : row = <<u, c>>
  BY DEF Pairs
<1>3. /\ snd[s].pc = "write" /\ snd[s].val \in Nat /\ row \in rows
      /\ s \notin stale => snd[s].val = unread[row]
  BY <1>1, <1>2 DEF BumpWrite, BadgeInv, HoldsOK, TypeOK, SendRequest
<1>4. /\ HSetCount(s, u, c, snd[s].val + 1)
      /\ since' = [since EXCEPT ![row] = @ + 1]
      /\ raced' = IF s \in stale THEN raced \cup {row} ELSE raced
      /\ rows' = rows /\ creating' = creating
  BY <1>1, <1>2 DEF BumpWrite
<1>5. /\ unread'[row] = snd[s].val + 1
      /\ \A p \in Pairs : p # row => unread'[p] = unread[p]
  BY <1>2, <1>4, HSetOf
<1>6. /\ since'[row] = since[row] + 1 /\ since[row] \in Nat
      /\ \A p \in Pairs : p # row => since'[p] = since[p]
  BY <1>4 DEF TypeOK
<1>7. FreshOK'
  BY <1>3, <1>4, <1>5, <1>6 DEF BadgeInv, FreshOK
<1>8. ASSUME NEW t \in Sends PROVE HoldsOK(t)'
  <2>1. CASE t = s
    <3>1. PICK pc \in {"bump", "ok", "err"} :
            snd' = [snd EXCEPT ![s].pc = pc,
                               ![s].inactive = snd[s].inactive \ {snd[s].cur},
                               ![s].cur = None, ![s].val = 0]
      BY DEF BumpWrite
    <3>2. snd'[s].pc = pc
      BY <3>1 DEF TypeOK, SendRequest
    <3>3. QED  BY <2>1, <3>2 DEF HoldsOK
  <2>2. CASE t # s
    <3>1. snd'[t] = snd[t]
      BY <2>2 DEF BumpWrite, TypeOK
    <3>2. HoldsOK(t) /\ rows \subseteq rows'
      BY <1>4 DEF BadgeInv
    <3>3. QED  BY <1>4, <2>2, <3>1, <3>2, HSetHolds
  <2>3. QED  BY <2>1, <2>2
<1>9. BadgeShows'
  BY <1>3, <1>5, <1>6 DEF BadgeInv, BadgeShows
<1>10. ExactUnlessRaced'
  <2>1. ASSUME NEW p \in Pairs, p \notin raced' PROVE unread'[p] = since'[p]
    <3>1. CASE p = row
      BY <1>3, <1>4, <1>5, <1>6, <2>1, <3>1 DEF BadgeInv, ExactUnlessRaced
    <3>2. CASE p # row
      BY <1>4, <1>5, <1>6, <2>1, <3>2 DEF BadgeInv, ExactUnlessRaced
    <3>3. QED  BY <3>1, <3>2
  <2>2. QED  BY <2>1 DEF ExactUnlessRaced
<1>11. QED  BY <1>7, <1>8, <1>9, <1>10 DEF BadgeInv

\* Reading the messages resets the count and what has been counted.
LEMMA BadgeStreamWrite ==
  ASSUME TypeOK, BadgeInv, NEW l \in Streams, StreamWrite(l)
  PROVE  BadgeInv'
<1>1. PICK u \in Users, c \in Convs : u = str[l].user /\ c = str[l].conv
  BY DEF StreamWrite, TypeOK
<1>2. PICK row \in Pairs : row = <<u, c>>
  BY DEF Pairs
<1>3. /\ HSetCount(None, u, c, 0) /\ since' = [since EXCEPT ![row] = 0]
      /\ raced' = raced \ {row} /\ rows' = rows /\ creating' = creating
      /\ snd' = snd
  BY <1>1, <1>2 DEF StreamWrite
<1>4. /\ unread'[row] = 0
      /\ \A p \in Pairs : p # row => unread'[p] = unread[p]
  BY <1>2, <1>3, HSetOf
<1>5. /\ since'[row] = 0
      /\ \A p \in Pairs : p # row => since'[p] = since[p]
  BY <1>3 DEF TypeOK
<1>6. FreshOK'
  BY <1>3, <1>4, <1>5 DEF BadgeInv, FreshOK
<1>7. \A t \in Sends : HoldsOK(t)'
  <2>1. \A t \in Sends : t # None
    BY ChatAssumption
  <2>2. QED  BY <1>3, <2>1, HSetHolds DEF BadgeInv
<1>8. BadgeShows' /\ ExactUnlessRaced'
  BY <1>3, <1>4, <1>5 DEF BadgeInv, BadgeShows, ExactUnlessRaced
<1>9. QED  BY <1>6, <1>7, <1>8 DEF BadgeInv

\* The HGET of an increment: the request holds what is stored.
LEMMA BadgeBumpRead ==
  ASSUME TypeOK, BadgeInv, NEW s \in Sends, NEW p \in Users, BumpRead(s, p)
  PROVE  BadgeInv'
<1>1. /\ rows' = rows /\ unread' = unread /\ since' = since /\ raced' = raced
      /\ creating' = creating /\ stale' = stale
      /\ snd \in [Sends -> SendRequest] /\ snd[s] \in SendRequest
  BY DEF BumpRead, redis, history, TypeOK
<1>2. \A t \in Sends \ {s} : snd'[t] = snd[t]
  BY <1>1 DEF BumpRead, Goto
<1>3. CASE Goto(s, "err")
  <2>1. snd'[s].pc = "err"
    BY <1>1, <1>3 DEF Goto, SendRequest
  <2>2. QED  BY <1>1, <1>2, <2>1, BadgeFrame
<1>4. CASE /\ <<p, snd[s].conv>> \in rows
           /\ snd' = [snd EXCEPT ![s].pc = "write", ![s].cur = p,
                                 ![s].val = unread[<<p, snd[s].conv>>]]
  <2>1. /\ snd'[s].cur = p /\ snd'[s].conv = snd[s].conv
        /\ snd'[s].val = unread[<<p, snd[s].conv>>]
    BY <1>1, <1>4 DEF SendRequest
  <2>2. ASSUME NEW t \in Sends PROVE HoldsOK(t)'
    BY <1>1, <1>2, <1>4, <2>1 DEF BadgeInv, HoldsOK
  <2>3. FreshOK' /\ BadgeShows' /\ ExactUnlessRaced'
    BY <1>1 DEF BadgeInv, FreshOK, BadgeShows, ExactUnlessRaced
  <2>4. QED  BY <2>2, <2>3 DEF BadgeInv
<1>5. QED  BY <1>3, <1>4 DEF BumpRead

\* Every step of a request
LEMMA BadgeSend ==
  ASSUME TypeOK, BadgeInv, NEW s \in Sends, SendStep(s)
  PROVE  BadgeInv'
<1>1. snd \in [Sends -> SendRequest] /\ snd[s] \in SendRequest
  BY DEF TypeOK
<1>2. ASSUME SendLock(s) \/ SendStore(s) \/ SendPublish(s) \/ SendMembers(s)
             \/ SendFails(s) \/ \E p \in Users : SendActive(s, p)
      PROVE  /\ rows' = rows /\ unread' = unread /\ since' = since
             /\ raced' = raced /\ creating' = creating
             /\ snd'[s].pc # "write"
             /\ \A t \in Sends \ {s} :
                  snd'[t] = snd[t] /\ (t \in stale => t \in stale')
  <2>1. CASE SendLock(s) \/ SendStore(s) \/ SendPublish(s) \/ SendFails(s)
    BY <1>1, <2>1 DEF SendLock, SendStore, SendPublish, SendFails, Goto,
       SendRequest, redis, history
  <2>2. CASE SendMembers(s)
    BY <1>1, <2>2 DEF SendMembers, Goto, SendRequest, redis, history
  <2>3. ASSUME NEW p \in Users, SendActive(s, p)
        PROVE  /\ rows' = rows /\ unread' = unread /\ since' = since
               /\ raced' = raced /\ creating' = creating
               /\ snd'[s].pc # "write" /\ stale' = stale
               /\ \A t \in Sends \ {s} : snd'[t] = snd[t]
    BY <1>1, <2>3 DEF SendActive, SendRequest, redis, history
  <2>4. QED  BY <1>2, <2>1, <2>2, <2>3
<1>3. CASE SendLock(s) \/ SendStore(s) \/ SendPublish(s) \/ SendMembers(s)
           \/ SendFails(s) \/ \E p \in Users : SendActive(s, p)
  BY <1>2, <1>3, BadgeFrame
<1>4. CASE BumpWrite(s) \/ \E p \in Users : BumpRead(s, p)
  BY <1>4, BadgeBumpRead, BadgeBumpWrite
<1>5. QED  BY <1>3, <1>4 DEF SendStep

\* Every step of the system; CopiesOK says that a conversation to be created
\* has no copies yet.
LEMMA BadgeStep ==
  TypeOK /\ CopiesOK /\ BadgeInv /\ [Next]_vars => BadgeInv'
<1> SUFFICES ASSUME TypeOK, CopiesOK, BadgeInv, [Next]_vars PROVE BadgeInv'
  OBVIOUS
<1>1. ASSUME rows' = rows, unread' = unread, since' = since, raced' = raced,
             creating' = creating, snd' = snd, stale' = stale
      PROVE  BadgeInv'
  BY <1>1, BadgeFrame
<1>2. ASSUME NEW c \in Convs, NEW u \in Users, NEW v \in Users,
             CreateConversation(c, u, v)
      PROVE  BadgeInv'
  <2>1. /\ rows' = rows /\ unread' = unread /\ since' = since /\ raced' = raced
        /\ snd' = snd /\ stale' = stale
        /\ \A d \in Convs \ {c} : creating'[d] = creating[d]
        /\ \A w \in Users : <<w, c>> \notin rows
        /\ creating'[c] \subseteq Users
    BY <1>2 DEF CreateConversation, CopiesOK, TypeOK, redis, history
  <2>2. FreshOK'
    BY <2>1 DEF BadgeInv, FreshOK
  <2>3. \A t \in Sends : HoldsOK(t)'
    BY <2>1 DEF BadgeInv, HoldsOK
  <2>4. BadgeShows' /\ ExactUnlessRaced'
    BY <2>1 DEF BadgeInv, BadgeShows, ExactUnlessRaced
  <2>5. QED  BY <2>2, <2>3, <2>4 DEF BadgeInv
<1>3. ASSUME NEW c \in Convs, CreateStep(c) PROVE BadgeInv'
  <2>1. CASE CreateFails(c)
    <3>1. \A d \in Convs : creating'[d] \subseteq creating[d]
      BY <2>1 DEF CreateFails, TypeOK
    <3>2. QED  BY <2>1, <3>1, BadgeFrame DEF CreateFails, redis, history
  <2>2. QED  BY <1>3, <2>1, BadgeStoreCopy DEF CreateStep
<1>4. ASSUME NEW s \in Sends, NEW u \in Users, NEW c \in Convs,
             SendBegin(s, u, c)
      PROVE  BadgeInv'
  <2>1. /\ \A t \in Sends \ {s} : snd'[t] = snd[t]
        /\ snd'[s].pc = "lock"
    BY <1>4 DEF SendBegin, TypeOK, SendRequest
  <2>2. QED  BY <1>4, <2>1, BadgeFrame DEF SendBegin, redis, history
<1>5. ASSUME NEW l \in Streams, StreamStep(l) PROVE BadgeInv'
  <2>1. CASE StreamWriteFails(l) \/ StreamSetActive(l) \/ StreamClose(l)
    BY <1>1, <2>1 DEF StreamWriteFails, StreamSetActive, StreamClose, redis,
       history
  <2>2. QED  BY <1>5, <2>1, BadgeStreamWrite DEF StreamStep
<1>6. CASE \E l \in Streams, u \in Users, c \in Convs : StreamRead(l, u, c)
  BY <1>1, <1>6 DEF StreamRead, redis, history
<1>7. CASE Crash
  <2>1. /\ rows' = rows /\ unread' = unread /\ since' = since /\ raced' = raced
        /\ \A c \in Convs : creating'[c] \subseteq creating[c]
        /\ \A t \in Sends : snd'[t].pc # "write"
    BY <1>7 DEF Crash, InFlight, TypeOK, SendRequest, redis
  <2>2. QED  BY <2>1, BadgeFrame
<1>8. CASE Finished \/ UNCHANGED vars
  BY <1>1, <1>8 DEF Finished, vars
<1>9. QED
  BY <1>2, <1>3, <1>4, <1>5, <1>6, <1>7, <1>8, BadgeSend DEF Next
---------------------------------------------------------------------------
\* The invariant holds throughout.
LEMMA BadgeInvCorrect == Spec => []BadgeInv
<1>1. Init => CopiesOK /\ BadgeInv
  BY DEF Init, CopiesOK, BadgeInv, FreshOK, HoldsOK, BadgeShows,
     ExactUnlessRaced, Keys
<1>2. QED  BY <1>1, CopiesStep, BadgeStep, TypeCorrect, PTL DEF Spec

\* Increments of one copy that overlap (usecase.go, without a lock) lose
\* counts, but once a message has been counted since the last read, the
\* participant's count is not zero.
THEOREM BadgeShowsCorrect == Spec => []BadgeShows
<1>1. BadgeInv => BadgeShows
  BY DEF BadgeInv
<1>2. QED  BY <1>1, BadgeInvCorrect, PTL

\* A count is exactly the number of messages counted since the last read
\* unless an increment has written over a change it had not seen: losing
\* counts takes a race, no failure or restart alone does it.
THEOREM ExactUnlessRacedCorrect == Spec => []ExactUnlessRaced
<1>1. BadgeInv => ExactUnlessRaced
  BY DEF BadgeInv
<1>2. QED  BY <1>1, BadgeInvCorrect, PTL
---------------------------------------------------------------------------
(* ChatStream: the goroutines of one stream, as the instance C.            *)

\* The types, with the numbers of messages unbounded, and what a goroutine
\* has in hand.
Typed ==
  /\ handler \in {"reading", "waiting", "returned"}
  /\ done \in {"open", "closed"} /\ ctx \in {"live", "cancelled"}
  /\ client \in {"connected", "gone"}
  /\ held \in [C!Goroutines -> Nat]
  /\ buffer \in Seq(Nat \ {0}) /\ delivered \in Seq(Nat \ {0})
  /\ posted \in Nat /\ from \in Nat
  /\ held["sender"] # 0 <=> sender = "sending"
  /\ held["relay"] # 0 <=> relay = "send"
  /\ held["reader"] # 0 <=> reader = "send"

\* The sender closes done once, unless the read failed; who left or which
\* error ended the stream is known by then.
Control ==
  /\ handler = "reading" => sender = "none" /\ done = "open"
  /\ handler = "returned" => done = "closed"
  /\ done = "closed" => sendErr # "nil" \/ client = "gone"
  /\ done = "closed" /\ ~failed => sender = "exited"
  /\ ctx = "cancelled" => client = "gone" \/ handler = "returned"
  /\ returned = "nil" => client = "gone"
  /\ panicked => failed

\* Nothing comes before the subscription.
Starting ==
  /\ sender \in {"none", "start"} => relay = "none" /\ reader = "none"
  /\ pubsub = "none" => reader \in {"none", "subscribing"}
  /\ reader \in {"none", "subscribing"} =>
       delivered = <<>> /\ \A g \in C!Goroutines : held[g] = 0

---------------------------------------------------------------------------
(* Sequences by their elements.                                            *)

Elements(s) == {s[k] : k \in 1..Len(s)}

Increasing(s) == \A j, k \in 1..Len(s) : j < k => s[j] < s[k]

\* The elements of a sequence are numbers of messages.
LEMMA ElementsTyped ==
  ASSUME NEW s \in Seq(Nat \ {0})
  PROVE  Elements(s) \subseteq Nat \ {0} /\ Len(s) \in Nat
  BY DEF Elements

\* What is appended comes last.
LEMMA ElementsAppend ==
  ASSUME NEW s \in Seq(Nat \ {0}), NEW n \in Nat \ {0}
  PROVE  /\ Append(s, n) \in Seq(Nat \ {0})
         /\ Elements(Append(s, n)) = Elements(s) \cup {n}
         /\ Increasing(s) /\ (\A m \in Elements(s) : m < n) =>
              Increasing(Append(s, n))
<1> DEFINE t == Append(s, n)
<1>1. /\ t \in Seq(Nat \ {0}) /\ Len(t) = Len(s) + 1 /\ t[Len(s) + 1] = n
      /\ \A k \in 1..Len(s) : t[k] = s[k]
  BY AppendProperties
<1>2. Len(s) \in Nat
  OBVIOUS
<1> HIDE DEF t
<1>3. Elements(t) = Elements(s) \cup {n}
  <2>1. Elements(t) \subseteq Elements(s) \cup {n}
    <3> SUFFICES ASSUME NEW k \in 1..Len(t)
                 PROVE  t[k] \in Elements(s) \cup {n}
      BY DEF Elements
    <3>1. k \in 1..Len(s) \/ k = Len(s) + 1
      BY <1>1, <1>2
    <3>2. QED  BY <1>1, <3>1 DEF Elements
  <2>2. Elements(s) \subseteq Elements(t)
    <3> SUFFICES ASSUME NEW k \in 1..Len(s)
                 PROVE  s[k] \in Elements(t)
      BY DEF Elements
    <3>1. k \in 1..Len(t) /\ t[k] = s[k]
      BY <1>1, <1>2
    <3>2. QED  BY <3>1 DEF Elements
  <2>3. n \in Elements(t)
    <3>1. Len(t) \in 1..Len(t) /\ t[Len(t)] = n
      BY <1>1, <1>2
    <3>2. QED  BY <3>1 DEF Elements
  <2>4. QED  BY <2>1, <2>2, <2>3
<1>4. ASSUME Increasing(s), \A m \in Elements(s) : m < n,
             NEW j \in 1..Len(t), NEW k \in 1..Len(t), j < k
      PROVE  t[j] < t[k]
  <2> DEFINE l == Len(s)
  <2>0. j \in 1..l + 1 /\ k \in 1..l + 1 /\ j < k /\ l \in Nat
    BY <1>1, <1>2, <1>4
  <2> HIDE DEF l
  <2>9. j \in 1..l /\ (k \in 1..l \/ k = l + 1)
    BY <2>0
  <2>1. j \in 1..Len(s) /\ (k \in 1..Len(s) \/ k = Len(s) + 1)
    BY <2>9 DEF l
  <2>2. s[j] \in Elements(s)
    BY <2>1 DEF Elements
  <2>3. CASE k \in 1..Len(s)
    BY <1>1, <1>4, <2>1, <2>3 DEF Increasing
  <2>4. CASE k = Len(s) + 1
    BY <1>1, <1>4, <2>1, <2>2, <2>4
  <2>5. QED  BY <2>1, <2>3, <2>4
<1>5. QED  BY <1>1, <1>3, <1>4 DEF Increasing, t

\* What is taken first comes before the rest.
LEMMA ElementsTail ==
  ASSUME NEW s \in Seq(Nat \ {0}), s # <<>>, Increasing(s)
  PROVE  /\ Head(s) \in Nat \ {0} /\ Tail(s) \in Seq(Nat \ {0})
         /\ Elements(s) = Elements(Tail(s)) \cup {Head(s)}
         /\ \A m \in Elements(Tail(s)) : Head(s) < m
         /\ Increasing(Tail(s))
<1> DEFINE t == Tail(s)
<1>1. /\ Head(s) \in Nat \ {0} /\ t \in Seq(Nat \ {0}) /\ Len(t) = Len(s) - 1
      /\ \A k \in 1..Len(t) : t[k] = s[k + 1]
  BY HeadTailProperties
<1>2. Len(s) \in Nat \ {0} /\ Len(t) \in Nat /\ Head(s) = s[1]
  BY <1>1
<1> HIDE DEF t
<1>3. Elements(s) = Elements(t) \cup {Head(s)}
  <2>1. Elements(s) \subseteq Elements(t) \cup {Head(s)}
    <3> SUFFICES ASSUME NEW k \in 1..Len(s)
                 PROVE  s[k] \in Elements(t) \cup {Head(s)}
      BY DEF Elements
    <3>1. CASE k = 1
      BY <1>2, <3>1
    <3>2. CASE k # 1
      <4>1. k - 1 \in 1..Len(t) /\ t[k - 1] = s[k]
        BY <1>1, <1>2, <3>2
      <4>2. QED  BY <4>1 DEF Elements
    <3>3. QED  BY <3>1, <3>2
  <2>2. Elements(t) \subseteq Elements(s)
    <3> SUFFICES ASSUME NEW k \in 1..Len(t)
                 PROVE  t[k] \in Elements(s)
      BY DEF Elements
    <3>1. k + 1 \in 1..Len(s) /\ t[k] = s[k + 1]
      BY <1>1, <1>2
    <3>2. QED  BY <3>1 DEF Elements
  <2>3. Head(s) \in Elements(s)
    <3>1. 1 \in 1..Len(s)
      BY <1>2
    <3>2. QED  BY <1>2, <3>1 DEF Elements
  <2>4. QED  BY <2>1, <2>2, <2>3
<1>4. ASSUME NEW k \in 1..Len(t)
      PROVE  Head(s) < t[k]
  <2>1. k + 1 \in 1..Len(s) /\ 1 \in 1..Len(s) /\ 1 < k + 1 /\ t[k] = s[k + 1]
    BY <1>1, <1>2
  <2>2. s[1] < s[k + 1]
    BY <2>1 DEF Increasing
  <2>3. QED  BY <1>2, <2>1, <2>2
<1>5. ASSUME NEW j \in 1..Len(t), NEW k \in 1..Len(t), j < k
      PROVE  t[j] < t[k]
  <2>1. /\ j + 1 \in 1..Len(s) /\ k + 1 \in 1..Len(s) /\ j + 1 < k + 1
        /\ t[j] = s[j + 1] /\ t[k] = s[k + 1]
    BY <1>1, <1>2, <1>5
  <2>2. s[j + 1] < s[k + 1]
    BY <2>1 DEF Increasing
  <2>3. QED  BY <2>1, <2>2
<1>6. QED  BY <1>1, <1>3, <1>4, <1>5 DEF Elements, Increasing, t

---------------------------------------------------------------------------
(* What a step of ChatStream does to the messages on their way.            *)

\* Steps that touch no message
Still ==
  /\ held' = held /\ buffer' = buffer /\ delivered' = delivered
  /\ posted' = posted /\ from' = from /\ lost' = lost

\* The sender has sent what it had, or failed to because the stream is over.
Sent ==
  /\ held["sender"] # 0 /\ held'["sender"] = 0
  /\ held'["relay"] = held["relay"] /\ held'["reader"] = held["reader"]
  /\ buffer' = buffer /\ posted' = posted /\ from' = from /\ lost' = lost
  /\ \/ /\ client = "connected" /\ ctx = "live"
        /\ delivered' = Append(delivered, held["sender"])
     \/ /\ client = "gone" \/ ctx = "cancelled"
        /\ delivered' = delivered

\* A message is handed to the sender, to the relay, or to the reader.
Handed ==
  /\ delivered' = delivered /\ posted' = posted /\ from' = from /\ lost' = lost
  /\ \/ /\ held["sender"] = 0 /\ held'["sender"] = held["relay"]
        /\ held'["relay"] = 0 /\ held'["reader"] = held["reader"]
        /\ buffer' = buffer /\ held["relay"] # 0
     \/ /\ held["relay"] = 0 /\ held'["relay"] = held["reader"]
        /\ held'["reader"] = 0 /\ held'["sender"] = held["sender"]
        /\ buffer' = buffer /\ held["reader"] # 0
     \/ /\ held["reader"] = 0 /\ buffer # <<>>
        /\ held'["reader"] = Head(buffer) /\ buffer' = Tail(buffer)
        /\ held'["relay"] = held["relay"] /\ held'["sender"] = held["sender"]

\* The connection subscribes, loses what it had, or receives a message.
Received ==
  /\ held' = held /\ delivered' = delivered
  /\ \/ /\ delivered = <<>> /\ from' = posted
        /\ buffer' = buffer /\ posted' = posted /\ lost' = lost
     \/ /\ ctx = "cancelled" \/ (/\ delivered = <<>> /\ reader' = "exited"
                                 /\ \A g \in C!Goroutines : held[g] = 0)
        /\ buffer' \in Seq(Nat \ {0})
        /\ posted' = posted /\ from' = from /\ lost' = lost
     \/ /\ posted' = posted + 1 /\ from' = from
        /\ \/ buffer' = Append(buffer, posted + 1) /\ lost' = lost
           \/ buffer' = buffer /\ lost' = lost \cup {posted + 1}

\* What has ended stays so.
Over ==
  /\ client = "gone" => client' = "gone"
  /\ ctx = "cancelled" => ctx' = "cancelled"
  /\ reader = "exited" => reader' = "exited"

StepOK == /\ Typed' /\ Control' /\ Starting' /\ Over
          /\ Still \/ Sent \/ Handed \/ Received

\* The names of the goroutines
LEMMA Names == C!Goroutines = {"sender", "relay", "reader"}
  BY DEF C!Goroutines

\* The handler's steps
LEMMA HandlerSteps ==
  ASSUME Typed, Control, Starting, ~panicked, C!HandlerStep
  PROVE  StepOK
<1>1. Still /\ reader' = reader /\ client' = client /\ relay' = relay
      /\ pubsub' = pubsub /\ panicked' = panicked
  BY DEF C!HandlerStep, C!HandlerReads, C!HandlerReturns, C!conn, C!outside, Still
<1>2. CASE C!HandlerReads
  <2>1. Typed' /\ Over
    BY <1>1, <1>2 DEF C!HandlerReads, Typed, Control, Over, Still
  <2>2. Control'
    BY <1>1, <1>2 DEF C!HandlerReads, Control
  <2>3. Starting'
    BY <1>1, <1>2 DEF C!HandlerReads, Starting, Control, Still
  <2>4. QED  BY <1>1, <2>1, <2>2, <2>3 DEF StepOK
<1>3. CASE C!HandlerReturns
  <2>1. Typed' /\ Over
    BY <1>1, <1>3 DEF C!HandlerReturns, Typed, Over, Still
  <2>2. Control'
    BY <1>1, <1>3 DEF C!HandlerReturns, C!outside, Control
  <2>3. Starting'
    BY <1>1, <1>3 DEF C!HandlerReturns, Starting, Still
  <2>4. QED  BY <1>1, <2>1, <2>2, <2>3 DEF StepOK
<1>4. QED  BY <1>2, <1>3 DEF C!HandlerStep

\* The sender starts, and ends.
LEMMA SenderStartsAndEnds ==
  ASSUME Typed, Control, Starting, ~panicked,
         C!SenderStarts \/ C!SenderSeesCancel \/ C!SenderSeesClosed
  PROVE  StepOK
<1>1. Still /\ handler' = handler /\ client' = client /\ ctx' = ctx
      /\ pubsub' = pubsub /\ returned' = returned /\ failed' = failed
  BY DEF C!SenderStarts, C!SenderSeesCancel, C!SenderSeesClosed, C!SenderExits,
         C!conn, C!outside, Still
<1>2. CASE C!SenderStarts
  <2>1. /\ sender = "start" /\ sender' = "select" /\ relay' = "recv"
        /\ reader' = "subscribing" /\ done' = done /\ sendErr' = sendErr
        /\ panicked' = panicked
    BY <1>2 DEF C!SenderStarts
  <2>2. relay = "none" /\ reader = "none"
    BY <2>1 DEF Starting
  <2>3. Typed' /\ Over
    BY <1>1, <2>1, <2>2 DEF Typed, Over, Still
  <2>4. Control'
    BY <1>1, <2>1 DEF Control
  <2>5. Starting'
    BY <1>1, <2>1, <2>2 DEF Starting, Still
  <2>6. QED  BY <1>1, <2>3, <2>4, <2>5 DEF StepOK
<1>3. CASE C!SenderSeesCancel \/ C!SenderSeesClosed
  <2>1. /\ sender = "select" /\ sender' = "exited" /\ done' = "closed"
        /\ relay' = relay /\ reader' = reader
        /\ done = "closed" => panicked'
        /\ done = "open" => panicked' = panicked
        /\ (ctx = "cancelled" /\ sendErr' = sendErr) \/ sendErr' = "closed"
        /\ panicked' = TRUE \/ panicked' = panicked
    BY <1>3 DEF C!SenderSeesCancel, C!SenderSeesClosed, C!SenderExits
  <2>2. Typed' /\ Over
    BY <1>1, <2>1 DEF Typed, Over, Still
  <2>3. sendErr' # "nil" \/ client = "gone"
    BY <2>1 DEF Control
  <2>4. panicked' => failed
    <3>1. CASE done = "closed"
      BY <2>1, <3>1 DEF Control
    <3>2. CASE done = "open"
      BY <2>1, <3>2, Zenon
    <3>3. QED  BY <3>1, <3>2 DEF Typed
  <2>5. Control'
    BY <1>1, <2>1, <2>3, <2>4 DEF Control
  <2>6. Starting'
    BY <1>1, <2>1 DEF Starting, Still
  <2>7. QED  BY <1>1, <2>2, <2>5, <2>6 DEF StepOK
<1>4. QED  BY <1>2, <1>3

\* The sender sends.
LEMMA MessageIsSent ==
  ASSUME Typed, Control, Starting, ~panicked, C!SenderSends
  PROVE  StepOK
<1>1. /\ sender = "sending" /\ sender' = "select"
      /\ handler' = handler /\ client' = client /\ ctx' = ctx /\ failed' = failed
      /\ pubsub' = pubsub /\ returned' = returned /\ done' = done
      /\ relay' = relay /\ reader' = reader /\ panicked' = panicked
      /\ sendErr' = sendErr \/ sendErr' = "send"
      /\ buffer' = buffer /\ posted' = posted /\ from' = from /\ lost' = lost
      /\ held' = [held EXCEPT !["sender"] = 0]
      /\ \/ /\ client = "connected" /\ ctx = "live"
            /\ delivered' = Append(delivered, held["sender"])
         \/ /\ client = "gone" \/ ctx = "cancelled"
            /\ delivered' = delivered
  BY DEF C!SenderSends, C!conn, C!outside
<1>2. /\ held' \in [C!Goroutines -> Nat] /\ held'["sender"] = 0
      /\ held'["relay"] = held["relay"] /\ held'["reader"] = held["reader"]
  BY <1>1, Names DEF Typed
<1>3. held["sender"] \in Nat \ {0}
  BY <1>1, Names DEF Typed
<1>4. delivered' \in Seq(Nat \ {0})
  BY <1>1, <1>3, ElementsAppend DEF Typed
<1>5. Typed' /\ Over
  BY <1>1, <1>2, <1>4 DEF Typed, Over
<1>6. Control'
  BY <1>1 DEF Control
<1>7. reader \notin {"none", "subscribing"}
  BY <1>3, Names DEF Starting
<1>8. Starting'
  BY <1>1, <1>7 DEF Starting
<1>9. Sent
  BY <1>1, <1>2, <1>3 DEF Sent
<1>10. QED  BY <1>5, <1>6, <1>8, <1>9 DEF StepOK

\* A goroutine hands its message on.
LEMMA HandSteps ==
  ASSUME Typed, Control, Starting, ~panicked,
         C!RelayToSender \/ C!ReaderToRelay \/ C!ReaderTakes
  PROVE  StepOK
<1>1. /\ handler' = handler /\ client' = client /\ ctx' = ctx /\ failed' = failed
      /\ pubsub' = pubsub /\ returned' = returned /\ done' = done
      /\ sendErr' = sendErr /\ panicked' = panicked /\ delivered' = delivered
      /\ posted' = posted /\ from' = from /\ lost' = lost
  BY DEF C!RelayToSender, C!ReaderToRelay, C!ReaderTakes, C!conn, C!outside
<1>2. CASE C!RelayToSender
  <2>1. /\ relay = "send" /\ sender = "select" /\ relay' = "recv"
        /\ sender' = "sending" /\ reader' = reader /\ buffer' = buffer
        /\ held' = [held EXCEPT !["sender"] = held["relay"], !["relay"] = 0]
    BY <1>2 DEF C!RelayToSender, C!conn
  <2>2. /\ held' \in [C!Goroutines -> Nat] /\ held'["sender"] = held["relay"]
        /\ held'["relay"] = 0 /\ held'["reader"] = held["reader"]
        /\ held["relay"] # 0 /\ held["sender"] = 0
    BY <2>1, Names DEF Typed
  <2>3. Typed' /\ Over
    BY <1>1, <2>1, <2>2 DEF Typed, Over
  <2>4. Control'
    BY <1>1, <2>1 DEF Control
  <2>5. reader \notin {"none", "subscribing"}
    BY <2>2, Names DEF Starting
  <2>6. Starting'
    BY <1>1, <2>1, <2>5 DEF Starting
  <2>7. Handed
    BY <1>1, <2>1, <2>2 DEF Handed
  <2>8. QED  BY <2>3, <2>4, <2>6, <2>7 DEF StepOK
<1>3. CASE C!ReaderToRelay
  <2>1. /\ reader = "send" /\ relay = "recv" /\ reader' = "recv"
        /\ relay' = "send" /\ sender' = sender /\ buffer' = buffer
        /\ held' = [held EXCEPT !["relay"] = held["reader"], !["reader"] = 0]
    BY <1>3 DEF C!ReaderToRelay, C!conn
  <2>2. /\ held' \in [C!Goroutines -> Nat] /\ held'["relay"] = held["reader"]
        /\ held'["reader"] = 0 /\ held'["sender"] = held["sender"]
        /\ held["reader"] # 0 /\ held["relay"] = 0
    BY <2>1, Names DEF Typed
  <2>3. Typed' /\ Over
    BY <1>1, <2>1, <2>2 DEF Typed, Over
  <2>4. Control'
    BY <1>1, <2>1 DEF Control
  <2>5. Starting'
    BY <1>1, <2>1 DEF Starting
  <2>6. Handed
    BY <1>1, <2>1, <2>2 DEF Handed
  <2>7. QED  BY <2>3, <2>4, <2>5, <2>6 DEF StepOK
<1>4. CASE C!ReaderTakes
  <2>1. /\ reader = "recv" /\ reader' = "send" /\ relay' = relay
        /\ sender' = sender /\ buffer # <<>> /\ buffer' = Tail(buffer)
        /\ held' = [held EXCEPT !["reader"] = Head(buffer)]
    BY <1>4 DEF C!ReaderTakes
  <2>2. Head(buffer) \in Nat \ {0} /\ Tail(buffer) \in Seq(Nat \ {0})
    BY <2>1, HeadTailProperties DEF Typed
  <2>3. /\ held' \in [C!Goroutines -> Nat] /\ held'["relay"] = held["relay"]
        /\ held'["reader"] = Head(buffer) /\ held'["sender"] = held["sender"]
        /\ held["reader"] = 0
    BY <2>1, <2>2, Names DEF Typed
  <2>4. Typed' /\ Over
    BY <1>1, <2>1, <2>2, <2>3 DEF Typed, Over
  <2>5. Control'
    BY <1>1, <2>1 DEF Control
  <2>6. Starting'
    BY <1>1, <2>1 DEF Starting
  <2>7. Handed
    BY <1>1, <2>1, <2>3 DEF Handed
  <2>8. QED  BY <2>4, <2>5, <2>6, <2>7 DEF StepOK
<1>5. QED  BY <1>2, <1>3, <1>4

\* Relay and reader end; the client leaves.
LEMMA EndSteps ==
  ASSUME Typed, Control, Starting, ~panicked,
         C!RelayExits \/ C!ReaderExits \/ C!ClientLeaves \/ C!LeavingCancels
  PROVE  StepOK
<1>1. /\ Still /\ handler' = handler /\ failed' = failed /\ sender' = sender
      /\ pubsub' = pubsub /\ returned' = returned /\ done' = done
      /\ sendErr' = sendErr /\ panicked' = panicked
      /\ client' = client \/ client' = "gone"
      /\ ctx' = ctx \/ (ctx' = "cancelled" /\ client = "gone" /\ client' = "gone")
      /\ relay' = relay \/ (relay = "recv" /\ relay' = "exited")
      /\ reader' = reader \/ (reader = "recv" /\ reader' = "exited")
  BY DEF C!RelayExits, C!ReaderExits, C!ClientLeaves, C!LeavingCancels, C!conn,
         C!outside, Still
<1>2. Typed' /\ Over
  BY <1>1 DEF Typed, Over, Still
<1>3. Control'
  BY <1>1 DEF Control
<1>4. Starting'
  BY <1>1 DEF Starting, Still
<1>5. QED  BY <1>1, <1>2, <1>3, <1>4 DEF StepOK

\* The connection to Redis
LEMMA ConnectionSteps ==
  ASSUME Typed, Control, Starting, ~panicked,
         C!Subscribed \/ C!ReaderConfirms \/ C!PubsubCloses \/ C!Publish
  PROVE  StepOK
<1>1. /\ handler' = handler /\ client' = client /\ ctx' = ctx /\ failed' = failed
      /\ returned' = returned /\ done' = done /\ sender' = sender /\ relay' = relay
      /\ sendErr' = sendErr /\ panicked' = panicked /\ delivered' = delivered
      /\ held' = held
  BY DEF C!Subscribed, C!ReaderConfirms, C!PubsubCloses, C!Publish, C!outside
<1>2. Control'
  BY <1>1 DEF Control
<1>3. ASSUME buffer' \in Seq(Nat \ {0}), posted' \in Nat, from' \in Nat,
             reader' = reader \/ (reader = "subscribing" /\ reader' \in {"recv", "exited"}),
             pubsub' = "none" => pubsub = "none" /\ reader' = reader,
             Received \/ Still
      PROVE  StepOK
  <2>1. Typed' /\ Over
    BY <1>1, <1>3 DEF Typed, Over
  <2>2. Starting'
    BY <1>1, <1>3 DEF Starting
  <2>3. QED  BY <1>2, <1>3, <2>1, <2>2 DEF StepOK
<1>4. CASE C!Subscribed
  <2>1. /\ reader = "subscribing" /\ reader' = reader /\ pubsub' = "open"
        /\ from' = posted /\ buffer' = buffer /\ posted' = posted /\ lost' = lost
    BY <1>4 DEF C!Subscribed, C!outside
  <2>2. delivered = <<>>
    BY <2>1 DEF Starting
  <2>3. Received
    BY <1>1, <2>1, <2>2 DEF Received
  <2>4. QED  BY <1>3, <2>1, <2>3 DEF Typed
<1>5. CASE C!ReaderConfirms
  <2>1. /\ reader = "subscribing" /\ from' = from /\ posted' = posted /\ lost' = lost
        /\ \/ /\ reader' = "recv" /\ pubsub' = "open" /\ buffer' = buffer
           \/ /\ reader' = "exited" /\ pubsub' = "closed" /\ buffer' = <<>>
    BY <1>5 DEF C!ReaderConfirms, C!conn, C!outside
  <2>2. delivered = <<>> /\ \A g \in C!Goroutines : held[g] = 0
    BY <2>1 DEF Starting
  <2>3. buffer' \in Seq(Nat \ {0})
    <3>1. <<>> \in Seq(Nat \ {0}) /\ buffer \in Seq(Nat \ {0})
      BY EmptySeq DEF Typed
    <3>2. QED  BY <2>1, <3>1
  <2>4. Received \/ Still
    BY <1>1, <2>1, <2>2, <2>3 DEF Received, Still
  <2>5. QED  BY <1>3, <2>1, <2>3, <2>4 DEF Typed
<1>6. CASE C!PubsubCloses
  <2>1. PICK n \in 0..Len(buffer) : buffer' = SubSeq(buffer, 1, n)
    BY <1>6 DEF C!PubsubCloses
  <2>2. /\ ctx = "cancelled" /\ pubsub' = "closed" /\ reader' = reader
        /\ from' = from /\ posted' = posted /\ lost' = lost
    BY <1>6 DEF C!PubsubCloses, C!outside
  <2>3. buffer' \in Seq(Nat \ {0})
    <3>1. buffer \in Seq(Nat \ {0})
      BY DEF Typed
    <3>2. n \in Int /\ \A i \in 1..n : buffer[i] \in Nat \ {0}
      BY <3>1
    <3>3. SubSeq(buffer, 1, n) \in Seq(Nat \ {0})
      BY <3>2, SubSeqProperties
    <3>4. QED  BY <2>1, <3>3
  <2>4. Received
    BY <1>1, <2>2, <2>3 DEF Received
  <2>5. QED  BY <1>3, <2>2, <2>3, <2>4 DEF Typed
<1>7. CASE C!Publish
  <2>1. /\ reader' = reader /\ pubsub' = pubsub /\ from' = from
        /\ posted' = posted + 1
        /\ \/ buffer' = Append(buffer, posted + 1) /\ lost' = lost
           \/ buffer' = buffer /\ lost' = lost \cup {posted + 1}
    BY <1>7 DEF C!Publish
  <2>2. posted + 1 \in Nat \ {0} /\ posted' \in Nat
    BY <2>1 DEF Typed
  <2>3. buffer' \in Seq(Nat \ {0})
    BY <2>1, <2>2, ElementsAppend DEF Typed
  <2>4. Received
    BY <1>1, <2>1 DEF Received
  <2>5. QED  BY <1>3, <2>1, <2>2, <2>3, <2>4 DEF Typed
<1>8. QED  BY <1>4, <1>5, <1>6, <1>7

\* Every step of ChatStream
LEMMA StreamSteps ==
  ASSUME Typed, Control, Starting, C!Next
  PROVE  StepOK
<1>1. ~panicked /\ C!Step
  BY DEF C!Next
<1>2. CASE C!HandlerStep
  BY <1>1, <1>2, HandlerSteps
<1>3. CASE C!SenderStep
  BY <1>1, <1>3, SenderStartsAndEnds, MessageIsSent DEF C!SenderStep
<1>4. CASE C!RelayStep \/ C!ReaderStep
  BY <1>1, <1>4, HandSteps, EndSteps DEF C!RelayStep, C!ReaderStep
<1>5. CASE \/ C!Subscribed \/ C!ReaderConfirms \/ C!PubsubCloses
           \/ C!Publish \/ C!ClientLeaves \/ C!LeavingCancels
  BY <1>1, <1>5, ConnectionSteps, EndSteps
<1>6. QED  BY <1>1, <1>2, <1>3, <1>4, <1>5 DEF C!Step

---------------------------------------------------------------------------
(* The messages on their way: InOrderWithoutGap.                           *)

Before(S, T) == \A m \in S, n \in T : m < n

Hand(g) == {held[g]} \ {0}

\* Messages are received (D), in the hands of the sender, the relay and the
\* reader (S, R and H) or in the buffer (B), each before the next; and between
\* the subscription and the last published one none is missing that is not lost.
Flow(D, S, R, H, B, p, f, l) ==
  /\ Before(D, S \cup R \cup H \cup B) /\ Before(S, R \cup H \cup B)
  /\ Before(R, H \cup B) /\ Before(H, B)
  /\ \A m \in D \cup S \cup R \cup H \cup B : m \in Nat \ {0} /\ m <= p
  /\ \A n \in (f + 1)..p : n \in l \cup D \cup S \cup R \cup H \cup B

FlowOK ==
  /\ Increasing(buffer)
  /\ Flow(Elements(delivered), Hand("sender"), Hand("relay"), Hand("reader"),
          Elements(buffer), posted, from, lost)

\* Once the stream is over, or ended before it began, nothing is delivered.
Frozen == client = "gone" \/ ctx = "cancelled"

Broken ==
  reader = "exited" /\ delivered = <<>> /\ \A g \in C!Goroutines : held[g] = 0

PathOK == C!InOrderWithoutGap /\ (Frozen \/ Broken \/ FlowOK)

\* What the flow becomes when messages move by one place, or arrive
LEMMA FlowMoves ==
  ASSUME NEW D, NEW S, NEW R, NEW H, NEW B, NEW p \in Nat, NEW f \in Nat, NEW l,
         Flow(D, S, R, H, B, p, f, l)
  PROVE  /\ Flow(D \cup S, {}, R, H, B, p, f, l)
         /\ S = {} => Flow(D, R, {}, H, B, p, f, l)
         /\ R = {} => Flow(D, S, H, {}, B, p, f, l)
         /\ Flow(D, S, R, H, B, p, p, l)
         /\ Flow(D, S, R, H, B \cup {p + 1}, p + 1, f, l)
         /\ Flow(D, S, R, H, B, p + 1, f, l \cup {p + 1})
<1>1. Flow(D \cup S, {}, R, H, B, p, f, l)
  BY DEF Flow, Before
<1>2. S = {} => Flow(D, R, {}, H, B, p, f, l)
  BY DEF Flow, Before
<1>3. R = {} => Flow(D, S, H, {}, B, p, f, l)
  BY DEF Flow, Before
<1>4. Flow(D, S, R, H, B, p, p, l)
  BY DEF Flow, Before
<1>5. Flow(D, S, R, H, B \cup {p + 1}, p + 1, f, l)
  <2>1. \A m \in D \cup S \cup R \cup H : m < p + 1
    BY DEF Flow
  <2>2. \A n \in (f + 1)..(p + 1) : n = p + 1 \/ n \in (f + 1)..p
    OBVIOUS
  <2>3. QED  BY <2>1, <2>2 DEF Flow, Before
<1>6. Flow(D, S, R, H, B, p + 1, f, l \cup {p + 1})
  <2>1. \A n \in (f + 1)..(p + 1) : n = p + 1 \/ n \in (f + 1)..p
    OBVIOUS
  <2>2. QED  BY <2>1 DEF Flow, Before
<1>7. QED  BY <1>1, <1>2, <1>3, <1>4, <1>5, <1>6

\* The reader takes the first message of the buffer.
LEMMA FlowTakes ==
  ASSUME NEW D, NEW S, NEW R, NEW B, NEW p \in Nat, NEW f \in Nat, NEW l,
         NEW m, NEW T, B = T \cup {m}, \A n \in T : m < n,
         Flow(D, S, R, {}, B, p, f, l)
  PROVE  Flow(D, S, R, {m}, T, p, f, l)
  BY DEF Flow, Before

\* A message that is sent follows on what the client has.
LEMMA SentFollows ==
  ASSUME Typed, FlowOK, C!InOrderWithoutGap, held["sender"] # 0,
         delivered' = Append(delivered, held["sender"]), from' = from, lost' = lost
  PROVE  C!InOrderWithoutGap'
<1> DEFINE m == held["sender"]
           l == Len(delivered)
<1>1. /\ m \in Nat \ {0} /\ delivered \in Seq(Nat \ {0}) /\ l \in Nat
      /\ from \in Nat /\ posted \in Nat
  BY Names DEF Typed
<1>2. /\ Len(delivered') = l + 1 /\ delivered'[l + 1] = m
      /\ \A k \in 1..l : delivered'[k] = delivered[k]
  BY <1>1, AppendProperties
<1>3. m \in Hand("sender")
  BY <1>1 DEF Hand
<1>4. \A k \in 1..l : delivered[k] < m
  BY <1>3 DEF FlowOK, Flow, Before, Elements
<1>5. ASSUME NEW n \in (from + 1)..m
      PROVE  n \in lost \/ n = m \/ \E k \in 1..l : delivered[k] = n
  <2>1. m <= posted
    BY <1>3 DEF FlowOK, Flow
  <2>2. n \in (from + 1)..posted /\ n <= m /\ n \in Nat
    BY <1>1, <1>5, <2>1
  <2>3. n \in lost \cup Elements(delivered) \cup Hand("sender") \cup Hand("relay")
              \cup Hand("reader") \cup Elements(buffer)
    BY <2>2 DEF FlowOK, Flow
  <2>4. n \notin Hand("relay") \cup Hand("reader") \cup Elements(buffer)
    <3>1. \A x \in Hand("relay") \cup Hand("reader") \cup Elements(buffer) :
            m < x /\ x \in Nat
      BY <1>3 DEF FlowOK, Flow, Before
    <3>2. QED  BY <1>1, <2>2, <3>1
  <2>5. Hand("sender") = {m}
    BY <1>1 DEF Hand
  <2>6. QED  BY <2>3, <2>4, <2>5 DEF Elements
<1> HIDE DEF m, l
<1>6. ASSUME NEW i \in 1..l + 1
      PROVE  /\ \A j \in 1..i - 1 : delivered'[j] < delivered'[i]
             /\ \A n \in (from + 1)..delivered'[i] :
                  n \in lost \/ \E k \in 1..i : delivered'[k] = n
  <2>1. CASE i = l + 1
    <3>1. \A j \in 1..i - 1 : j \in 1..l
      BY <1>1, <2>1
    <3>2. \A k \in 1..l : k \in 1..i
      BY <1>1, <2>1
    <3>3. i \in 1..i
      BY <1>1, <2>1
    <3>4. QED  BY <1>2, <1>4, <1>5, <2>1, <3>1, <3>2, <3>3
  <2>2. CASE i \in 1..l
    <3>1. /\ \A j \in 1..i - 1 : delivered[j] < delivered[i]
          /\ \A n \in (from + 1)..delivered[i] :
               n \in lost \/ \E k \in 1..i : delivered[k] = n
      BY <2>2 DEF C!InOrderWithoutGap, l
    <3>2. \A j \in 1..i : j \in 1..l
      BY <1>1, <2>2
    <3>3. \A j \in 1..i - 1 : j \in 1..l
      BY <1>1, <2>2
    <3>4. QED  BY <1>2, <2>2, <3>1, <3>2, <3>3
  <2>3. i = l + 1 \/ i \in 1..l
    BY <1>1
  <2>4. QED  BY <2>1, <2>2, <2>3
<1>7. QED  BY <1>2, <1>6 DEF C!InOrderWithoutGap

\* What the client has received stays in order while nothing is added to it.
LEMMA OrderStays ==
  ASSUME C!InOrderWithoutGap, delivered' = delivered,
         from' = from \/ delivered = <<>>, lost \subseteq lost'
  PROVE  C!InOrderWithoutGap'
<1>1. CASE from' = from
  BY <1>1 DEF C!InOrderWithoutGap
<1>2. CASE delivered = <<>>
  BY <1>2 DEF C!InOrderWithoutGap
<1>3. QED  BY <1>1, <1>2

\* A stream that is over, or has ended before it began, stays so.
LEMMA EndStays ==
  ASSUME Typed, StepOK, Frozen \/ Broken
  PROVE  Frozen' \/ Broken'
<1>1. CASE Frozen
  BY <1>1 DEF StepOK, Over, Frozen
<1>2. CASE Broken
  <2>1. /\ reader' = "exited" /\ delivered = <<>>
        /\ held["sender"] = 0 /\ held["relay"] = 0 /\ held["reader"] = 0
    BY <1>2, Names DEF Broken, StepOK, Over
  <2>2. reader' # "send"
    BY <2>1
  <2>3. held'["reader"] = 0
    BY <2>2 DEF StepOK, Typed
  <2>4. Still \/ Received \/ Handed
    BY <2>1 DEF StepOK, Sent
  <2>5. CASE Still \/ Received
    BY <1>2, <2>1, <2>5 DEF Still, Received, Broken
  <2>6. CASE Handed
    <3>1. Head(buffer) = 0 /\ buffer # <<>>
      BY <2>1, <2>3, <2>6 DEF Handed
    <3>2. Head(buffer) # 0
      BY <3>1, HeadTailProperties DEF Typed
    <3>3. QED  BY <3>1, <3>2
  <2>7. QED  BY <2>4, <2>5, <2>6
<1>3. QED  BY <1>1, <1>2

\* The hands and the buffer hold numbers of messages.
LEMMA HandIs ==
  ASSUME NEW g, held[g] = 0
  PROVE  Hand(g) = {}
  BY DEF Hand

\* Every step keeps the flow, or freezes it.
LEMMA PathKept ==
  ASSUME Typed, PathOK, StepOK
  PROVE  PathOK'
<1>1. CASE Frozen \/ Broken
  <2>1. Frozen' \/ Broken'
    BY <1>1, EndStays
  <2>2. delivered' = delivered
    <3>1. CASE Frozen
      BY <3>1 DEF StepOK, Still, Sent, Handed, Received, Frozen
    <3>2. CASE Broken
      <4>1. held["sender"] = 0
        BY <3>2, Names DEF Broken
      <4>2. QED  BY <4>1 DEF StepOK, Still, Sent, Handed, Received
    <3>3. QED  BY <1>1, <3>1, <3>2
  <2>3. (from' = from \/ delivered = <<>>) /\ lost \subseteq lost'
    BY DEF StepOK, Still, Sent, Handed, Received
  <2>4. QED  BY <2>1, <2>2, <2>3, OrderStays DEF PathOK
<1>2. CASE FlowOK /\ ~Frozen
  <2>1. /\ posted \in Nat /\ from \in Nat /\ buffer \in Seq(Nat \ {0})
        /\ delivered \in Seq(Nat \ {0})
        /\ held["sender"] \in Nat /\ held["relay"] \in Nat /\ held["reader"] \in Nat
    BY Names DEF Typed
  <2> DEFINE D == Elements(delivered)
             S == Hand("sender")
             R == Hand("relay")
             H == Hand("reader")
             B == Elements(buffer)
  <2>2. Increasing(buffer) /\ Flow(D, S, R, H, B, posted, from, lost)
    BY <1>2 DEF FlowOK
  <2>3. CASE Still
    <3>1. FlowOK'
      BY <1>2, <2>3 DEF Still, FlowOK, Hand
    <3>2. C!InOrderWithoutGap'
      BY <2>3, OrderStays DEF Still, PathOK
    <3>3. QED  BY <3>1, <3>2 DEF PathOK
  <2>4. CASE Sent
    <3>1. delivered' = Append(delivered, held["sender"])
      BY <1>2, <2>4 DEF Sent, Frozen
    <3>2. held["sender"] \in Nat \ {0} /\ S = {held["sender"]}
      BY <2>1, <2>4 DEF Sent, Hand
    <3>3. D' = D \cup S
      BY <2>1, <3>1, <3>2, ElementsAppend
    <3>4. S' = {} /\ R' = R /\ H' = H /\ B' = B /\ buffer' = buffer
          /\ posted' = posted /\ from' = from /\ lost' = lost
      BY <2>4 DEF Sent, Hand
    <3> HIDE DEF D, S, R, H, B
    <3>5. Flow(D', S', R', H', B', posted', from', lost')
      BY <2>1, <2>2, <3>3, <3>4, FlowMoves
    <3>6. FlowOK'
      BY <2>2, <3>4, <3>5 DEF FlowOK, D, S, R, H, B
    <3>7. C!InOrderWithoutGap'
      BY <1>2, <3>1, <3>2, <3>4, SentFollows DEF PathOK
    <3>8. QED  BY <3>6, <3>7 DEF PathOK
  <2>5. CASE Handed
    <3>1. /\ delivered' = delivered /\ posted' = posted /\ from' = from
          /\ lost' = lost /\ D' = D
      BY <2>5 DEF Handed
    <3>2. FlowOK'
      <4>1. CASE /\ held["sender"] = 0 /\ held'["sender"] = held["relay"]
                 /\ held'["relay"] = 0 /\ held'["reader"] = held["reader"]
                 /\ buffer' = buffer
        <5>1. S = {} /\ S' = R /\ R' = {} /\ H' = H /\ B' = B
          BY <4>1 DEF Hand
        <5> HIDE DEF D, S, R, H, B
        <5>2. Flow(D', S', R', H', B', posted', from', lost')
          BY <2>1, <2>2, <3>1, <5>1, FlowMoves
        <5>3. QED  BY <2>2, <4>1, <5>2 DEF FlowOK, D, S, R, H, B
      <4>2. CASE /\ held["relay"] = 0 /\ held'["relay"] = held["reader"]
                 /\ held'["reader"] = 0 /\ held'["sender"] = held["sender"]
                 /\ buffer' = buffer
        <5>1. R = {} /\ R' = H /\ H' = {} /\ S' = S /\ B' = B
          BY <4>2 DEF Hand
        <5> HIDE DEF D, S, R, H, B
        <5>2. Flow(D', S', R', H', B', posted', from', lost')
          BY <2>1, <2>2, <3>1, <5>1, FlowMoves
        <5>3. QED  BY <2>2, <4>2, <5>2 DEF FlowOK, D, S, R, H, B
      <4>3. CASE /\ held["reader"] = 0 /\ buffer # <<>>
                 /\ held'["reader"] = Head(buffer) /\ buffer' = Tail(buffer)
                 /\ held'["relay"] = held["relay"]
                 /\ held'["sender"] = held["sender"]
        <5>1. /\ Head(buffer) \in Nat \ {0} /\ B = B' \cup {Head(buffer)}
              /\ \A m \in B' : Head(buffer) < m
              /\ Increasing(buffer')
          BY <2>1, <2>2, <4>3, ElementsTail
        <5>2. H = {} /\ H' = {Head(buffer)} /\ S' = S /\ R' = R
          BY <4>3, <5>1 DEF Hand
        <5> HIDE DEF D, S, R, H, B
        <5>3. Flow(D, S, R, H', B', posted, from, lost)
          BY <2>1, <2>2, <5>1, <5>2, FlowTakes
        <5>4. Flow(D', S', R', H', B', posted', from', lost')
          BY <3>1, <5>2, <5>3
        <5>5. QED  BY <5>1, <5>4 DEF FlowOK, D, S, R, H, B
      <4>4. QED  BY <2>5, <4>1, <4>2, <4>3 DEF Handed
    <3>3. C!InOrderWithoutGap'
      BY <3>1, OrderStays DEF PathOK
    <3>4. QED  BY <3>2, <3>3 DEF PathOK
  <2>6. CASE Received
    <3>1. /\ delivered' = delivered /\ held' = held
          /\ D' = D /\ S' = S /\ R' = R /\ H' = H
      BY <2>6 DEF Received, Hand
    <3>2. FlowOK' \/ Broken'
      <4>1. CASE /\ from' = posted /\ buffer' = buffer /\ posted' = posted
                 /\ lost' = lost
        <5>1. B' = B
          BY <4>1
        <5> HIDE DEF D, S, R, H, B
        <5>2. Flow(D', S', R', H', B', posted', from', lost')
          BY <2>1, <2>2, <3>1, <4>1, <5>1, FlowMoves
        <5>3. QED  BY <2>2, <4>1, <5>2 DEF FlowOK, D, S, R, H, B
      <4>2. CASE /\ delivered = <<>> /\ reader' = "exited"
                 /\ \A g \in C!Goroutines : held[g] = 0
        BY <3>1, <4>2 DEF Broken
      <4>3. CASE posted' = posted + 1 /\ from' = from
                 /\ buffer' = Append(buffer, posted + 1) /\ lost' = lost
        <5>1. posted + 1 \in Nat \ {0}
          BY <2>1
        <5>2. \A m \in B : m < posted + 1
          BY <2>1, <2>2 DEF Flow
        <5>3. B' = B \cup {posted + 1} /\ Increasing(buffer')
          BY <2>1, <2>2, <4>3, <5>1, <5>2, ElementsAppend
        <5> HIDE DEF D, S, R, H, B
        <5>4. Flow(D', S', R', H', B', posted', from', lost')
          BY <2>1, <2>2, <3>1, <4>3, <5>3, FlowMoves
        <5>5. QED  BY <5>3, <5>4 DEF FlowOK, D, S, R, H, B
      <4>4. CASE posted' = posted + 1 /\ from' = from
                 /\ buffer' = buffer /\ lost' = lost \cup {posted + 1}
        <5>1. B' = B
          BY <4>4
        <5> HIDE DEF D, S, R, H, B
        <5>2. Flow(D', S', R', H', B', posted', from', lost')
          BY <2>1, <2>2, <3>1, <4>4, <5>1, FlowMoves
        <5>3. QED  BY <2>2, <4>4, <5>2 DEF FlowOK, D, S, R, H, B
      <4>5. QED  BY <1>2, <2>6, <4>1, <4>2, <4>3, <4>4 DEF Received, Frozen
    <3>3. (from' = from \/ delivered = <<>>) /\ lost \subseteq lost'
      BY <2>6 DEF Received
    <3>4. C!InOrderWithoutGap'
      BY <3>1, <3>3, OrderStays DEF PathOK
    <3>5. QED  BY <3>2, <3>4 DEF PathOK
  <2>7. QED  BY <2>3, <2>4, <2>5, <2>6 DEF StepOK
<1>3. QED  BY <1>1, <1>2 DEF PathOK

\* The types, who closes what and why, and the messages on their way
THEOREM ChatStreamCorrect == C!Spec => [](Typed /\ Control /\ Starting /\ PathOK)
<1>1. C!Init => Typed /\ Control /\ Starting /\ PathOK
  <2> SUFFICES ASSUME C!Init
               PROVE  Typed /\ Control /\ Starting /\ PathOK
    OBVIOUS
  <2>1. buffer = <<>> /\ delivered = <<>> /\ <<>> \in Seq(Nat \ {0})
    BY EmptySeq DEF C!Init
  <2>2. \A g \in C!Goroutines : held[g] = 0
    BY DEF C!Init
  <2>3. Typed
    BY <2>1, Names DEF C!Init, Typed
  <2>4. Control /\ Starting
    BY <2>1, <2>2 DEF C!Init, Control, Starting
  <2>5. C!InOrderWithoutGap
    BY <2>1 DEF C!InOrderWithoutGap
  <2>6. FlowOK
    <3>1. Elements(delivered) = {} /\ Elements(buffer) = {} /\ Increasing(buffer)
      BY <2>1 DEF Elements, Increasing
    <3>2. Hand("sender") = {} /\ Hand("relay") = {} /\ Hand("reader") = {}
      BY <2>2, HandIs, Names
    <3>3. posted = 0 /\ from = 0
      BY DEF C!Init
    <3>4. QED  BY <3>1, <3>2, <3>3 DEF FlowOK, Flow, Before
  <2>7. QED  BY <2>3, <2>4, <2>5, <2>6 DEF PathOK
<1>2. Typed /\ Control /\ Starting /\ PathOK /\ [C!Next]_C!vars =>
        (Typed /\ Control /\ Starting /\ PathOK)'
  <2> SUFFICES ASSUME Typed, Control, Starting, PathOK, [C!Next]_C!vars
               PROVE  (Typed /\ Control /\ Starting /\ PathOK)'
    OBVIOUS
  <2>1. CASE C!Next
    <3>1. StepOK
      BY <2>1, StreamSteps
    <3>2. PathOK'
      BY <3>1, PathKept
    <3>3. QED  BY <3>1, <3>2 DEF StepOK
  <2>2. CASE UNCHANGED C!vars
    <3>1. (Typed /\ Control /\ Starting)'
      BY <2>2 DEF C!vars, Typed, Control, Starting
    <3>2. PathOK'
      BY <2>2 DEF C!vars, PathOK, C!InOrderWithoutGap, Frozen, Broken, FlowOK, Hand
    <3>3. QED  BY <3>1, <3>2
  <2>3. QED  BY <2>1, <2>2
<1>3. QED  BY <1>1, <1>2, PTL DEF C!Spec

\* The client receives the messages in order, none twice and none missing but
\* those the connection lost: sender, relay and reader of ListenForMessages
\* drop nothing before the stream is over.
THEOREM InOrderWithoutGapCorrect == C!Spec => []C!InOrderWithoutGap
<1>1. PathOK => C!InOrderWithoutGap
  BY DEF PathOK
<1>2. QED  BY <1>1, ChatStreamCorrect, PTL

\* A stream ends without an error only if the client left, and closes done
\* twice only if the read of earlier messages failed.
THEOREM ChatStreamEndsForAReason == C!Spec => []C!EndsForAReason
<1>1. Control => C!EndsForAReason
  BY DEF Control, C!EndsForAReason
<1>2. QED  BY <1>1, ChatStreamCorrect, PTL
---------------------------------------------------------------------------
(* Delivery: the chat with one of its listeners.  A behaviour of the two   *)
(* is one of each, so that what was shown of each holds of the two.        *)

\* A step of the two is a step of Chat, or leaves it alone.
LEMMA ChatTakesStep == DeliveryNext => [Next]_vars
<1> SUFFICES ASSUME DeliveryNext PROVE [Next]_vars
  OBVIOUS
<1>1. Listener \in Streams /\ Channel \in Convs
  BY DeliveryAssumption
<1>2. CASE StoreStep
  <2>1. CASE \/ \E c \in Convs : CreateStep(c)
             \/ \E c \in Convs : \E u, v \in Users : CreateConversation(c, u, v)
             \/ \E s \in Sends, u \in Users, c \in Convs : SendBegin(s, u, c)
             \/ \E s \in Sends : SendStep(s)
    BY <2>1 DEF Next
  <2>2. CASE \E u \in Users : StreamRead(Listener, u, Channel)
    BY <1>1, <2>2 DEF Next
  <2>3. CASE StreamWrite(Listener) \/ StreamWriteFails(Listener)
    BY <1>1, <2>3 DEF Next, StreamStep
  <2>4. CASE \E l \in Streams \ {Listener} :
               StreamStep(l) \/ \E u \in Users, c \in Convs : StreamRead(l, u, c)
    BY <2>4 DEF Next
  <2>5. QED  BY <1>2, <2>1, <2>2, <2>3, <2>4 DEF StoreStep
<1>3. CASE GoroutineStep
  BY <1>3 DEF GoroutineStep
<1>4. CASE \E s \in Sends : Publish(s)
  BY <1>4 DEF Publish, Next, SendStep
<1>5. CASE HandlerOpens \/ HandlerCloses
  BY <1>1, <1>5 DEF HandlerOpens, HandlerCloses, Next, StreamStep
<1>6. CASE SenderPanics \/ ProcessDies
  BY <1>6 DEF SenderPanics, ProcessDies, Next
<1>7. QED  BY <1>2, <1>3, <1>4, <1>5, <1>6 DEF DeliveryNext

\* And it is one of ChatStream, or leaves the goroutines alone.
LEMMA StreamTakesStep == DeliveryNext => [C!Next]_(C!vars)
<1> SUFFICES ASSUME DeliveryNext PROVE [C!Next]_(C!vars)
  OBVIOUS
<1>1. UNCHANGED goroutines => UNCHANGED C!vars
  BY DEF goroutines, C!vars
<1>2. CASE StoreStep \/ ProcessDies
  BY <1>1, <1>2 DEF StoreStep, ProcessDies
<1>3. CASE GoroutineStep
  BY <1>3 DEF GoroutineStep, Serving, C!Next, C!Step
<1>4. CASE \E s \in Sends : Publish(s)
  BY <1>1, <1>4 DEF Publish, Serving, C!Next, C!Step
<1>5. CASE HandlerOpens \/ HandlerCloses
  BY <1>5 DEF HandlerOpens, HandlerCloses, Serving, C!Next, C!Step, C!HandlerStep
<1>6. CASE SenderPanics
  BY <1>6 DEF SenderPanics, Serving, C!Next, C!Step
<1>7. QED  BY <1>2, <1>3, <1>4, <1>5, <1>6 DEF DeliveryNext

\* The chat with a listener is the chat, and its stream is a stream.
THEOREM DeliveryIsBoth == DeliverySpec => Spec /\ C!Spec
<1>1. DeliveryInit => Init /\ C!Init
  BY DEF DeliveryInit
<1>2. [DeliveryNext]_everything => [Next]_vars
  BY ChatTakesStep DEF everything
<1>3. [DeliveryNext]_everything => [C!Next]_(C!vars)
  BY StreamTakesStep DEF everything, goroutines, C!vars
<1>4. QED  BY <1>1, <1>2, <1>3, PTL DEF DeliverySpec, Spec, C!Spec

---------------------------------------------------------------------------
(* Each message is stored and published once.                              *)

Unstored == {"idle", "lock", "store"}

OnceOK ==
  /\ \A s \in Sends, c \in Convs :
       /\ snd[s].pc \in Unstored => s \notin Stored(c)
       /\ snd[s].pc \in Unstored \cup {"publish"} => s \notin Heard(c)
  /\ \A c \in Convs : \A j, k \in 1..Len(pub[c]) :
       j < k => pub[c][j] # pub[c][k]

\* Steps that store and publish nothing
LEMMA OnceFrame ==
  ASSUME OnceOK, log' = log, pub' = pub,
         \A s \in Sends :
           /\ snd'[s].pc \in Unstored => snd[s].pc \in Unstored
           /\ snd'[s].pc = "publish" => snd[s].pc = "publish"
  PROVE  OnceOK'
  BY DEF OnceOK, Stored, Heard

\* ZADD
LEMMA OnceStore ==
  ASSUME TypeOK, OnceOK, NEW s \in Sends, SendStore(s)
  PROVE  OnceOK'
<1> DEFINE d == snd[s].conv
<1>1. /\ snd[s].pc = "store" /\ d \in Convs /\ pub' = pub
      /\ log' = [log EXCEPT ![d] = Append(log[d], s)]
      /\ snd'[s].pc \in {"publish", "err"} /\ \A t \in Sends \ {s} : snd'[t] = snd[t]
  BY DEF SendStore, Goto, TypeOK, SendRequest
<1>2. ASSUME NEW c \in Convs PROVE Stored(c)' \subseteq Stored(c) \cup {s}
  <2>1. log[c] \in Seq(Sends) /\ log'[c] \in {log[c], Append(log[c], s)}
    BY <1>1 DEF TypeOK
  <2>2. QED  BY <2>1, AppendHas DEF Stored
<1>3. \A c \in Convs : Heard(c)' = Heard(c)
  BY <1>1 DEF Heard
<1>4. \A c \in Convs : s \notin Heard(c)
  BY <1>1 DEF OnceOK, Unstored
<1> HIDE DEF d
<1>5. QED  BY <1>1, <1>2, <1>3, <1>4 DEF OnceOK, Unstored

\* PUBLISH
LEMMA OncePublish ==
  ASSUME TypeOK, OnceOK, NEW s \in Sends, SendPublish(s)
  PROVE  OnceOK'
<1> DEFINE d == snd[s].conv
<1>1. /\ snd[s].pc = "publish" /\ d \in Convs /\ log' = log
      /\ pub' = [pub EXCEPT ![d] = Append(pub[d], s)]
      /\ snd'[s].pc \in {"members", "err"} /\ \A t \in Sends \ {s} : snd'[t] = snd[t]
  BY DEF SendPublish, Goto, TypeOK, SendRequest
<1> HIDE DEF d
<1>2. ASSUME NEW c \in Convs
      PROVE  /\ pub[c] \in Seq(Sends) /\ pub'[c] \in {pub[c], Append(pub[c], s)}
             /\ Heard(c)' \subseteq Heard(c) \cup {s}
  <2>1. pub[c] \in Seq(Sends) /\ pub'[c] \in {pub[c], Append(pub[c], s)}
    BY <1>1 DEF TypeOK
  <2>2. QED  BY <2>1, AppendHas DEF Heard
<1>3. ASSUME NEW c \in Convs, NEW j \in 1..Len(pub'[c]), NEW k \in 1..Len(pub'[c]),
             j < k
      PROVE  pub'[c][j] # pub'[c][k]
  <2>1. \A x \in 1..Len(pub[c]) : pub[c][x] # s
    BY <1>1 DEF OnceOK, Unstored, Heard
  <2>2. CASE pub'[c] = pub[c]
    BY <1>3, <2>2 DEF OnceOK
  <2>3. CASE pub'[c] = Append(pub[c], s)
    <3>1. /\ Len(pub[c]) \in Nat /\ Len(pub'[c]) = Len(pub[c]) + 1
          /\ pub'[c][Len(pub[c]) + 1] = s
          /\ \A x \in 1..Len(pub[c]) : pub'[c][x] = pub[c][x]
      BY <1>2, <2>3, AppendIs
    <3>2. j \in 1..Len(pub[c])
      BY <1>3, <3>1
    <3>3. CASE k \in 1..Len(pub[c])
      BY <1>3, <3>1, <3>2, <3>3 DEF OnceOK
    <3>4. CASE k = Len(pub[c]) + 1
      BY <2>1, <3>1, <3>2, <3>4
    <3>5. QED  BY <1>3, <3>1, <3>3, <3>4
  <2>4. QED  BY <1>2, <2>2, <2>3
<1>4. \A c \in Convs : Stored(c)' = Stored(c)
  BY <1>1 DEF Stored
<1>5. QED  BY <1>1, <1>2, <1>3, <1>4 DEF OnceOK, Unstored

\* Every step of Chat
LEMMA OnceStep == TypeOK /\ OnceOK /\ [Next]_vars => OnceOK'
<1> SUFFICES ASSUME TypeOK, OnceOK, [Next]_vars PROVE OnceOK'
  OBVIOUS
<1>1. snd \in [Sends -> SendRequest]
  BY DEF TypeOK
<1>2. ASSUME NEW s \in Sends, SendStep(s) PROVE OnceOK'
  <2>1. CASE SendStore(s) \/ SendPublish(s)
    BY <2>1, OnceStore, OncePublish
  <2>2. CASE ~SendStore(s) /\ ~SendPublish(s)
    <3>1. log' = log /\ pub' = pub /\ \A t \in Sends \ {s} : snd'[t] = snd[t]
      BY <1>1, <1>2, <2>2 DEF SendStep, SendLock, SendMembers, SendActive, BumpRead,
         BumpWrite, SendFails, Goto, redis
    <3>2. \/ snd[s].pc = "lock" /\ snd'[s].pc = "store"
          \/ snd'[s].pc \notin Unstored \cup {"publish"}
      <4>1. CASE SendLock(s) \/ SendMembers(s) \/ SendFails(s)
        BY <1>1, <4>1 DEF SendLock, SendMembers, SendFails, Goto, SendRequest,
           Unstored
      <4>2. ASSUME NEW p \in Users, SendActive(s, p)
            PROVE  snd'[s].pc \in {"active", "bump", "ok"}
        BY <1>1, <4>2 DEF SendActive, SendRequest
      <4>3. ASSUME NEW p \in Users, BumpRead(s, p)
            PROVE  snd'[s].pc \in {"write", "err"}
        BY <1>1, <4>3 DEF BumpRead, Goto, SendRequest
      <4>4. CASE BumpWrite(s)
        <5>1. PICK pc \in {"bump", "ok", "err"} :
                snd' = [snd EXCEPT ![s].pc = pc,
                                   ![s].inactive = snd[s].inactive \ {snd[s].cur},
                                   ![s].cur = None, ![s].val = 0]
          BY <4>4 DEF BumpWrite
        <5>2. snd'[s].pc = pc
          BY <1>1, <5>1 DEF SendRequest
        <5>3. QED  BY <5>2 DEF Unstored
      <4>5. QED
        BY <1>2, <2>2, <4>1, <4>2, <4>3, <4>4 DEF SendStep, Unstored
    <3>3. QED  BY <3>1, <3>2, OnceFrame DEF Unstored
  <2>3. QED  BY <2>1, <2>2
<1>3. ASSUME NEW s \in Sends, NEW u \in Users, NEW c \in Convs,
             SendBegin(s, u, c)
      PROVE  OnceOK'
  <2>1. /\ log' = log /\ pub' = pub /\ \A t \in Sends \ {s} : snd'[t] = snd[t]
        /\ snd[s].pc = "idle" /\ snd'[s].pc = "lock"
    BY <1>1, <1>3 DEF SendBegin, redis, SendRequest
  <2>2. QED  BY <2>1, OnceFrame DEF Unstored
<1>4. CASE Crash
  <2>1. /\ log' = log /\ pub' = pub
        /\ \A t \in Sends : snd'[t] = snd[t] \/ snd'[t].pc = "lost"
    BY <1>1, <1>4 DEF Crash, redis, SendRequest
  <2>2. QED  BY <2>1, OnceFrame DEF Unstored
<1>5. CASE /\ ~Crash /\ ~(\E s \in Sends : SendStep(s))
           /\ ~(\E s \in Sends, u \in Users, c \in Convs : SendBegin(s, u, c))
  <2>1. snd' = snd /\ log' = log /\ pub' = pub
    BY <1>5 DEF Next, CreateConversation, CreateStep, CreateFails, StoreCopy,
       StreamStep, StreamWrite, StreamWriteFails, StreamSetActive, StreamClose,
       StreamRead, Finished, vars, redis
  <2>2. QED  BY <2>1, OnceFrame
<1>6. QED  BY <1>2, <1>3, <1>4, <1>5
\* Nothing is stored or published twice, in any history of the chat.
LEMMA OnceCorrect == Spec => []OnceOK
<1>1. Init => OnceOK
  BY DEF Init, OnceOK, Unstored, Stored, Heard
<1>2. QED  BY <1>1, OnceStep, TypeCorrect, PTL DEF Spec

---------------------------------------------------------------------------
(* The two count the same messages.                                        *)

LinkOK ==
  /\ posted <= Len(pub[Channel])
  /\ Serving => posted = Len(pub[Channel])

DeliveredOK == \A k \in 1..Len(delivered) : delivered[k] <= posted

\* A message is published, or the goroutines move and the chat stays, or the
\* chat moves and nothing is heard.
LEMMA Meeting ==
  ASSUME TypeOK, DeliveryNext
  PROVE  /\ \/ \E s \in Sends : Publish(s)
            \/ /\ UNCHANGED vars /\ Serving /\ C!Next /\ posted' = posted
            \/ delivered' = delivered /\ posted' = posted
               /\ pub'[Channel] = pub[Channel]
         /\ Serving' => Serving
<1>1. pub \in [Convs -> Seq(Sends)] /\ Channel \in Convs
  BY DeliveryAssumption DEF TypeOK
<1>2. CASE StoreStep
  <2>1. CASE \E s \in Sends : SendStep(s) /\ pub'[Channel] = pub[Channel]
    BY <1>2, <2>1 DEF StoreStep, goroutines, Serving
  <2>2. ASSUME NEW l \in Streams
        PROVE  /\ StreamStep(l) => pub' = pub
               /\ \A u \in Users, c \in Convs : StreamRead(l, u, c) => pub' = pub
    BY DEF StreamRead, StreamStep, StreamWrite, StreamWriteFails,
       StreamSetActive, StreamClose, redis
  <2>3. /\ \A c \in Convs : CreateStep(c) => pub' = pub
        /\ \A c \in Convs, u, v \in Users : CreateConversation(c, u, v) => pub' = pub
        /\ \A s \in Sends, u \in Users, c \in Convs : SendBegin(s, u, c) => pub' = pub
    BY DEF CreateStep, CreateFails, StoreCopy, CreateConversation, SendBegin, redis
  <2>4. pub'[Channel] = pub[Channel]
    BY <1>2, <2>1, <2>2, <2>3, DeliveryAssumption DEF StoreStep, StreamStep
  <2>5. QED  BY <1>2, <2>4 DEF StoreStep, goroutines, Serving
<1>3. CASE GoroutineStep
  <2>1. UNCHANGED vars /\ Serving /\ C!Next
    BY <1>3 DEF GoroutineStep, Serving, C!Next, C!Step
  <2>2. posted' = posted
    BY <1>3 DEF GoroutineStep, C!SenderStep, C!SenderStarts, C!SenderSeesCancel,
       C!SenderSeesClosed, C!SenderExits, C!SenderSends, C!RelayStep,
       C!RelayToSender, C!RelayExits, C!ReaderStep, C!ReaderToRelay,
       C!ReaderTakes, C!ReaderExits, C!Subscribed, C!ReaderConfirms,
       C!PubsubCloses, C!ClientLeaves, C!LeavingCancels, C!outside
  <2>3. QED  BY <2>1, <2>2
<1>4. CASE \E s \in Sends : Publish(s)
  BY <1>4 DEF Publish, Serving, C!Publish, goroutines
<1>5. CASE HandlerOpens \/ HandlerCloses
  BY <1>5 DEF HandlerOpens, HandlerCloses, StreamSetActive, StreamClose,
     C!HandlerReads, C!HandlerReturns, C!outside
<1>6. CASE SenderPanics
  <2>1. Serving /\ pub' = pub
    BY <1>6 DEF SenderPanics, Crash, redis, vars
  <2>2. ~C!SenderSends
    BY <1>6 DEF SenderPanics, Serving, C!SenderSends
  <2>3. delivered' = delivered /\ posted' = posted
    BY <1>6, <2>2 DEF SenderPanics, C!SenderStep, C!SenderStarts,
       C!SenderSeesCancel, C!SenderSeesClosed, C!SenderExits, C!outside
  <2>4. QED  BY <2>1, <2>3
<1>7. CASE ProcessDies
  BY <1>7 DEF ProcessDies, Crash, redis, goroutines, Serving
<1>8. QED  BY <1>2, <1>3, <1>4, <1>5, <1>6, <1>7 DEF DeliveryNext

\* What the stream's goroutines may do to what was delivered
LEMMA Delivering ==
  ASSUME Typed, Control, Starting, PathOK, C!Next
  PROVE  \/ delivered' = delivered
         \/ \E n \in 1..posted :
              /\ delivered' = Append(delivered, n)
              /\ \A k \in 1..Len(delivered) : delivered[k] < n
<1>1. StepOK
  BY StreamSteps
<1>2. CASE /\ Sent /\ client = "connected" /\ ctx = "live"
           /\ delivered' = Append(delivered, held["sender"])
  <2> DEFINE n == held["sender"]
  <2>1. n \in Nat \ {0} /\ posted \in Nat
    BY <1>2, Names DEF Typed, Sent
  <2>2. ~Frozen /\ ~Broken
    BY <1>2, <2>1, Names DEF Frozen, Broken
  <2>3. FlowOK /\ Hand("sender") = {n}
    BY <2>1, <2>2 DEF PathOK, Hand
  <2>4. n <= posted /\ \A m \in Elements(delivered) : m < n
    BY <2>3 DEF FlowOK, Flow, Before
  <2>5. QED  BY <1>2, <2>1, <2>4 DEF Elements
<1>3. QED  BY <1>1, <1>2 DEF StepOK, Still, Sent, Handed, Received
StreamInv == Typed /\ Control /\ Starting /\ PathOK

\* While the process lives, the stream has seen every message published on its
\* channel; the client has been given none but these.
LEMMA LinkStep ==
  ASSUME TypeOK, StreamInv, LinkOK, DeliveredOK, DeliveryNext
  PROVE  LinkOK' /\ DeliveredOK'
<1>1. /\ pub \in [Convs -> Seq(Sends)] /\ Channel \in Convs
      /\ Len(pub[Channel]) \in Nat /\ posted \in Nat
      /\ delivered \in Seq(Nat \ {0})
  BY DeliveryAssumption DEF TypeOK, StreamInv, Typed
<1>2. Serving' => Serving
  BY Meeting
<1>3. CASE delivered' = delivered /\ posted' = posted
           /\ pub'[Channel] = pub[Channel]
  BY <1>2, <1>3 DEF LinkOK, DeliveredOK
<1>4. CASE UNCHANGED vars /\ Serving /\ C!Next /\ posted' = posted
  <2>1. LinkOK'
    BY <1>2, <1>4 DEF LinkOK, vars
  <2>2. CASE delivered' = delivered
    BY <1>4, <2>1, <2>2 DEF DeliveredOK
  <2>3. ASSUME NEW n \in 1..posted, delivered' = Append(delivered, n)
        PROVE  DeliveredOK'
    <3>1. /\ Len(delivered) \in Nat /\ Len(delivered') = Len(delivered) + 1
          /\ delivered'[Len(delivered) + 1] = n
          /\ \A k \in 1..Len(delivered) : delivered'[k] = delivered[k]
      BY <1>1, <2>3, AppendProperties
    <3>2. \A k \in 1..Len(delivered') : k \in 1..Len(delivered) \/ k = Len(delivered) + 1
      BY <3>1
    <3>3. ASSUME NEW k \in 1..Len(delivered') PROVE delivered'[k] <= posted'
      <4>1. CASE k \in 1..Len(delivered)
        BY <1>4, <3>1, <4>1 DEF DeliveredOK
      <4>2. CASE k = Len(delivered) + 1
        <5>1. delivered'[k] = n /\ n <= posted
          BY <1>1, <3>1, <4>2
        <5>2. QED  BY <1>4, <5>1
      <4>3. QED  BY <3>2, <4>1, <4>2
    <3>4. QED  BY <3>3 DEF DeliveredOK
  <2>4. QED  BY <1>4, <2>1, <2>2, <2>3, Delivering DEF StreamInv
<1>5. ASSUME NEW s \in Sends, Publish(s) PROVE LinkOK' /\ DeliveredOK'
  <2>1. pub'[Channel] = Append(pub[Channel], s)
    BY <1>1, <1>5 DEF Publish, SendPublish
  <2>2. Len(pub'[Channel]) = Len(pub[Channel]) + 1
    BY <1>1, <2>1
  <2>3. delivered' = delivered /\ posted' = IF Serving THEN posted + 1 ELSE posted
    BY <1>5 DEF Publish, C!Publish, goroutines
  <2>4. LinkOK'
    BY <1>1, <1>2, <2>2, <2>3 DEF LinkOK
  <2>5. \A k \in 1..Len(delivered) : delivered[k] \in Nat /\ delivered[k] <= posted'
    BY <1>1, <2>3 DEF DeliveredOK
  <2>6. QED  BY <2>3, <2>4, <2>5 DEF DeliveredOK
<1>6. QED  BY <1>3, <1>4, <1>5, Meeting DEF StreamInv

\* Nothing is published or delivered yet.
LEMMA LinkInit == DeliveryInit => LinkOK /\ DeliveredOK
<1> SUFFICES ASSUME DeliveryInit PROVE LinkOK /\ DeliveredOK
  OBVIOUS
<1>1. posted = 0 /\ delivered = <<>> /\ pub[Channel] = <<>>
  BY DeliveryAssumption DEF DeliveryInit, Init, C!Init
<1>2. QED  BY <1>1 DEF LinkOK, DeliveredOK

DeliveryInv ==
  /\ TypeOK /\ AckInv /\ PublishedInStoreOrder /\ OnceOK
  /\ StreamInv /\ LinkOK /\ DeliveredOK

\* What holds of the chat, of the stream, and of the two
THEOREM DeliveryCorrect == DeliverySpec => []DeliveryInv
<1>1. DeliverySpec => [](TypeOK /\ AckInv /\ PublishedInStoreOrder /\ OnceOK)
  BY DeliveryIsBoth, TypeCorrect, AckInvCorrect, PublishedInStoreOrderCorrect,
     OnceCorrect, PTL
<1>2. DeliverySpec => []StreamInv
  BY DeliveryIsBoth, ChatStreamCorrect, PTL DEF StreamInv
<1>3. /\ TypeOK /\ StreamInv /\ LinkOK /\ DeliveredOK /\ [DeliveryNext]_everything
      => (LinkOK /\ DeliveredOK)'
  <2>1. UNCHANGED everything /\ LinkOK /\ DeliveredOK => (LinkOK /\ DeliveredOK)'
    BY DEF everything, vars, goroutines, LinkOK, DeliveredOK, Serving
  <2>2. QED  BY <2>1, LinkStep
<1>4. QED
  BY <1>1, <1>2, <1>3, LinkInit, PTL DEF DeliverySpec, DeliveryInv

---------------------------------------------------------------------------
(* AcknowledgedArrives.                                                    *)

\* A message that was acknowledged is on its way, or arrived, or was lost by
\* the connection: neither the order of Redis commands nor the goroutines of
\* ListenForMessages lose it while somebody listens.
THEOREM AcknowledgedArrivesCorrect == DeliverySpec => []AcknowledgedArrives
<1>1. DeliveryInv => AcknowledgedArrives
  <2> SUFFICES ASSUME DeliveryInv, NEW s \in Sends,
                      snd[s].pc = "ok", snd[s].conv = Channel
               PROVE  /\ s \in Stored(Channel)
                      /\ \E n \in 1..Len(pub[Channel]) :
                           /\ pub[Channel][n] = s
                           /\ Listening /\ n > from =>
                                \/ \E k \in 1..Len(delivered) : delivered[k] = n
                                \/ OnItsWay(n) \/ n \in lost
    BY DEF AcknowledgedArrives
  <2>1. s \in Stored(Channel) /\ s \in Heard(Channel)
    BY DEF DeliveryInv, AckInv, SoFar
  <2>2. PICK n \in 1..Len(pub[Channel]) : pub[Channel][n] = s
    BY <2>1 DEF Heard
  <2>3. ASSUME Listening, n > from
        PROVE  \/ \E k \in 1..Len(delivered) : delivered[k] = n
               \/ OnItsWay(n) \/ n \in lost
    <3>1. posted = Len(pub[Channel]) /\ posted \in Nat /\ from \in Nat
      BY <2>3 DEF DeliveryInv, LinkOK, Listening, StreamInv, Typed
    <3>2. FlowOK
      BY <2>3 DEF DeliveryInv, StreamInv, PathOK, Listening, Frozen, Broken
    <3>3. n \in (from + 1)..posted
      BY <2>3, <3>1
    <3>4. \/ n \in lost \/ n \in Elements(delivered) \/ n \in Elements(buffer)
          \/ n \in Hand("sender") \/ n \in Hand("relay") \/ n \in Hand("reader")
      BY <3>2, <3>3 DEF FlowOK, Flow
    <3>5. QED  BY <3>4, Names DEF Elements, Hand, OnItsWay
  <2>4. QED  BY <2>1, <2>2, <2>3
<1>2. QED  BY <1>1, DeliveryCorrect, PTL

\* A panic of the sender and an end without an error have their reasons, also
\* when the process serves the rest of the chat.
THEOREM StreamEndsForAReasonCorrect == DeliverySpec => []StreamEndsForAReason
BY DeliveryIsBoth, ChatStreamEndsForAReason, PTL DEF StreamEndsForAReason
---------------------------------------------------------------------------
(* ImplementsFeed. The commands of SendMessage are Say and Acknowledge,    *)
(* stream.Send is Hear, and nothing else changes what is said, acknowledged *)
(* or heard.                                                               *)

Acked == {s \in Sends : snd[s].pc = "ok" /\ snd[s].conv = Channel}

Hears == [k \in 1..Len(delivered) |-> pub[Channel][delivered[k]]]

HearsOK ==
  /\ Hears \in Seq(Sends) /\ Len(Hears) = Len(delivered)
  /\ \A k \in 1..Len(delivered) :
       /\ delivered[k] \in 1..Len(pub[Channel])
       /\ Hears[k] = pub[Channel][delivered[k]]

\* What the listener hears is a sequence of messages.
LEMMA HearsIs == DeliveryInv => HearsOK
<1> SUFFICES ASSUME DeliveryInv PROVE HearsOK
  OBVIOUS
<1>1. /\ pub[Channel] \in Seq(Sends) /\ Len(pub[Channel]) \in Nat /\ posted \in Nat
      /\ delivered \in Seq(Nat \ {0}) /\ Len(delivered) \in Nat
  BY DeliveryAssumption DEF DeliveryInv, StreamInv, TypeOK, Typed
<1>2. ASSUME NEW k \in 1..Len(delivered)
      PROVE  delivered[k] \in 1..Len(pub[Channel])
  <2>1. delivered[k] \in Nat \ {0} /\ delivered[k] <= posted
        /\ posted <= Len(pub[Channel])
    BY <1>1 DEF DeliveryInv, LinkOK, DeliveredOK
  <2>2. QED  BY <1>1, <2>1
<1>3. \A k \in 1..Len(delivered) : pub[Channel][delivered[k]] \in Sends
  BY <1>1, <1>2
<1>4. Hears \in Seq(Sends) /\ Len(Hears) = Len(delivered)
  BY <1>1, <1>3 DEF Hears
<1>5. QED  BY <1>2, <1>4 DEF HearsOK, Hears

\* And so after the step
LEMMA HearsIsNext == DeliveryInv' => HearsOK'
BY HearsIs, PTL

\* What a step does that leaves the channel and what was delivered alone
LEMMA SaysOrAcknowledges ==
  ASSUME DeliveryInv, DeliveryInv', [Next]_vars
  PROVE  \/ log'[Channel] = log[Channel] /\ Acked' = Acked
         \/ \E s \in Sends :
              /\ s \notin Stored(Channel)
              /\ log'[Channel] = Append(log[Channel], s) /\ Acked' = Acked
         \/ \E s \in Sends :
              /\ s \in Stored(Channel) /\ Acked' = Acked \cup {s}
              /\ log'[Channel] = log[Channel]
<1>1. /\ snd \in [Sends -> SendRequest] /\ log \in [Convs -> Seq(Sends)]
      /\ Channel \in Convs
  BY DeliveryAssumption DEF DeliveryInv, TypeOK
<1>2. ASSUME NEW s \in Sends, SendStep(s)
      PROVE  \/ log'[Channel] = log[Channel] /\ Acked' = Acked
             \/ /\ s \notin Stored(Channel)
                /\ log'[Channel] = Append(log[Channel], s) /\ Acked' = Acked
             \/ /\ s \in Stored(Channel) /\ Acked' = Acked \cup {s}
                /\ log'[Channel] = log[Channel]
  <2>1. /\ snd[s].pc # "ok" /\ \A t \in Sends \ {s} : snd'[t] = snd[t]
    BY <1>1, <1>2 DEF SendStep, SendLock, SendStore, SendPublish, SendMembers,
       SendActive, BumpRead, BumpWrite, SendFails, Goto
  <2>2. CASE SendStore(s)
    <3>1. snd'[s].pc # "ok"
      BY <1>1, <2>2 DEF SendStore, Goto, SendRequest
    <3>2. Acked' = Acked
      BY <2>1, <3>1 DEF Acked
    <3>3. /\ s \notin Stored(Channel)
          /\ log'[Channel] \in {log[Channel], Append(log[Channel], s)}
      BY <1>1, <2>2 DEF SendStore, DeliveryInv, OnceOK, Unstored
    <3>4. QED  BY <3>2, <3>3
  <2>3. CASE ~SendStore(s)
    <3>1. log' = log
      BY <1>2, <2>3 DEF SendStep, SendLock, SendPublish, SendMembers,
         SendActive, BumpRead, BumpWrite, SendFails, redis
    <3>2. CASE s \in Acked'
      <4>1. s \in Stored(Channel)'
        BY <3>2 DEF Acked, DeliveryInv, AckInv, SoFar
      <4>2. Acked' = Acked \cup {s}
        BY <2>1, <3>2 DEF Acked
      <4>3. QED  BY <3>1, <4>1, <4>2 DEF Stored
    <3>3. CASE s \notin Acked'
      <4>1. Acked' = Acked
        BY <2>1, <3>3 DEF Acked
      <4>2. QED  BY <3>1, <4>1
    <3>4. QED  BY <3>2, <3>3
  <2>4. QED  BY <2>2, <2>3
<1>3. ASSUME NEW s \in Sends, NEW u \in Users, NEW c \in Convs, SendBegin(s, u, c)
      PROVE  log' = log /\ Acked' = Acked
  <2>1. /\ log' = log /\ \A t \in Sends \ {s} : snd'[t] = snd[t]
        /\ snd[s].pc = "idle" /\ snd'[s].pc = "lock"
    BY <1>1, <1>3 DEF SendBegin, redis, SendRequest
  <2>2. QED  BY <2>1 DEF Acked
<1>4. CASE Crash
  <2>1. /\ log' = log
        /\ \A t \in Sends : IF InFlight(t) THEN snd'[t].pc = "lost"
                                           ELSE snd'[t] = snd[t]
    BY <1>1, <1>4 DEF Crash, redis, SendRequest
  <2>2. Acked' = Acked
    BY <2>1 DEF Acked, InFlight
  <2>3. QED  BY <2>1, <2>2
<1>5. CASE /\ ~Crash /\ ~(\E s \in Sends : SendStep(s))
           /\ ~(\E s \in Sends, u \in Users, c \in Convs : SendBegin(s, u, c))
  <2>1. snd' = snd /\ log' = log
    BY <1>5 DEF Next, CreateConversation, CreateStep, CreateFails, StoreCopy,
       StreamStep, StreamWrite, StreamWriteFails, StreamSetActive, StreamClose,
       StreamRead, Finished, vars, redis
  <2>2. QED  BY <2>1 DEF Acked
<1>6. QED  BY <1>2, <1>3, <1>4, <1>5

\* A message that is given to the client follows, in the history, on what the
\* client has.
LEMMA HearsNext ==
  ASSUME DeliveryInv, DeliveryInv', NEW n \in 1..posted, pub' = pub,
         delivered' = Append(delivered, n),
         \A k \in 1..Len(delivered) : delivered[k] < n
  PROVE  \E i \in 1..Len(log[Channel]) :
           /\ \A k \in 1..Len(Hears) : \E j \in 1..i - 1 : log[Channel][j] = Hears[k]
           /\ Hears' = Append(Hears, log[Channel][i])
<1>1. /\ pub[Channel] \in Seq(Sends) /\ log[Channel] \in Seq(Sends)
      /\ Channel \in Convs /\ Len(delivered) \in Nat
      /\ delivered \in Seq(Nat \ {0}) /\ n \in Nat \ {0}
      /\ n \in 1..Len(pub[Channel])
  <2>1. posted <= Len(pub[Channel]) /\ posted \in Nat
    BY DEF DeliveryInv, LinkOK, StreamInv, Typed
  <2>2. /\ pub[Channel] \in Seq(Sends) /\ log[Channel] \in Seq(Sends)
        /\ Channel \in Convs
    BY DeliveryAssumption DEF DeliveryInv, TypeOK
  <2>3. QED  BY <2>1, <2>2 DEF DeliveryInv, StreamInv, Typed
<1>2. PICK i \in 1..Len(log[Channel]) :
        /\ log[Channel][i] = pub[Channel][n]
        /\ \A k \in 1..n : \E h \in 1..i : log[Channel][h] = pub[Channel][k]
  BY <1>1 DEF DeliveryInv, PublishedInStoreOrder
<1>3. ASSUME NEW k \in 1..Len(Hears)
      PROVE  \E j \in 1..i - 1 : log[Channel][j] = Hears[k]
  <2>1. /\ k \in 1..Len(delivered) /\ delivered[k] \in 1..Len(pub[Channel])
        /\ Hears[k] = pub[Channel][delivered[k]] /\ delivered[k] < n
    BY HearsIs DEF HearsOK
  <2>2. PICK h \in 1..i : log[Channel][h] = pub[Channel][delivered[k]]
    BY <1>1, <1>2, <2>1
  <2>3. pub[Channel][delivered[k]] # pub[Channel][n]
    BY <1>1, <2>1 DEF DeliveryInv, OnceOK
  <2>4. h # i
    BY <1>2, <2>2, <2>3
  <2>5. QED  BY <1>1, <2>1, <2>2, <2>4
<1>4. Hears' = Append(Hears, log[Channel][i])
  <2>1. /\ Hears \in Seq(Sends) /\ Len(Hears) = Len(delivered)
        /\ \A k \in 1..Len(delivered) : Hears[k] = pub[Channel][delivered[k]]
    BY HearsIs DEF HearsOK
  <2>2. /\ Hears' \in Seq(Sends) /\ Len(Hears') = Len(delivered')
        /\ \A k \in 1..Len(delivered') : Hears'[k] = pub[Channel][delivered'[k]]
    BY HearsIsNext DEF HearsOK
  <2>3. /\ Len(delivered') = Len(delivered) + 1
        /\ delivered'[Len(delivered) + 1] = n
        /\ \A k \in 1..Len(delivered) : delivered'[k] = delivered[k]
    BY <1>1, AppendProperties
  <2> DEFINE a == Append(Hears, log[Channel][i])
  <2>4. /\ a \in Seq(Sends) /\ Len(a) = Len(Hears) + 1
        /\ a[Len(Hears) + 1] = pub[Channel][n]
        /\ \A k \in 1..Len(Hears) : a[k] = Hears[k]
    BY <1>1, <1>2, <2>1, AppendProperties
  <2> HIDE DEF a
  <2>5. ASSUME NEW k \in 1..Len(Hears') PROVE Hears'[k] = a[k]
    <3>1. k \in 1..Len(delivered) \/ k = Len(delivered) + 1
      BY <1>1, <2>2, <2>3
    <3>2. QED  BY <2>1, <2>2, <2>3, <2>4, <2>5, <3>1
  <2>6. Hears' = a
    BY <2>1, <2>2, <2>3, <2>4, <2>5, SeqEqual
  <2>7. QED  BY <2>6 DEF a
<1>5. QED  BY <1>2, <1>3, <1>4

\* Every step of the chat with its listener is one of Feed, or a stutter.
LEMMA FeedStep ==
  ASSUME DeliveryInv, DeliveryInv', DeliveryNext
  PROVE  [Promise!Next]_(Promise!vars)
<1>1. /\ pub \in [Convs -> Seq(Sends)] /\ Channel \in Convs
      /\ pub[Channel] \in Seq(Sends) /\ Len(delivered) \in Nat
  BY DeliveryAssumption DEF DeliveryInv, TypeOK, StreamInv, Typed
<1>2. ASSUME delivered' = delivered,
             \A k \in 1..Len(delivered) :
               pub'[Channel][delivered[k]] = pub[Channel][delivered[k]]
      PROVE  Hears' = Hears
  BY <1>2 DEF Hears
<1>3. log'[Channel] = log[Channel] /\ Acked' = Acked /\ Hears' = Hears
      => UNCHANGED Promise!vars
  BY DEF Acked, Hears, Promise!vars
<1>4. CASE delivered' = delivered /\ posted' = posted
           /\ pub'[Channel] = pub[Channel]
  <2>1. Hears' = Hears
    BY <1>2, <1>4
  <2>2. ASSUME NEW s \in Sends, s \notin Stored(Channel),
               log'[Channel] = Append(log[Channel], s), Acked' = Acked
        PROVE  Promise!Say(s)
    BY <2>1, <2>2 DEF Promise!Say, Promise!Said, Stored, Acked, Hears
  <2>3. ASSUME NEW s \in Sends, s \in Stored(Channel),
               log'[Channel] = log[Channel], Acked' = Acked \cup {s}
        PROVE  Promise!Acknowledge(s)
    BY <2>1, <2>3 DEF Promise!Acknowledge, Promise!Said, Stored, Acked, Hears
  <2>4. QED
    BY <1>3, <2>1, <2>2, <2>3, SaysOrAcknowledges, ChatTakesStep DEF Promise!Next
<1>5. CASE UNCHANGED vars /\ Serving /\ C!Next /\ posted' = posted
  <2>1. pub' = pub /\ log' = log /\ Acked' = Acked
    BY <1>5 DEF vars, Acked
  <2>2. CASE delivered' = delivered
    BY <1>2, <1>3, <2>1, <2>2
  <2>3. ASSUME NEW n \in 1..posted, delivered' = Append(delivered, n),
               \A k \in 1..Len(delivered) : delivered[k] < n
        PROVE  \E i \in 1..Len(log[Channel]) : Promise!Hear(i)
    <3>1. PICK i \in 1..Len(log[Channel]) :
            /\ \A k \in 1..Len(Hears) :
                 \E j \in 1..i - 1 : log[Channel][j] = Hears[k]
            /\ Hears' = Append(Hears, log[Channel][i])
      BY <2>1, <2>3, HearsNext
    <3>2. QED  BY <2>1, <3>1 DEF Promise!Hear, Hears, Acked
  <2>4. QED
    BY <1>5, <2>2, <2>3, Delivering DEF Promise!Next, DeliveryInv, StreamInv
<1>6. ASSUME NEW s \in Sends, Publish(s) PROVE UNCHANGED Promise!vars
  <2>1. pub'[Channel] = Append(pub[Channel], s) /\ log' = log /\ delivered' = delivered
    BY <1>1, <1>6 DEF Publish, SendPublish, C!Publish, goroutines
  <2>2. \A k \in 1..Len(delivered) :
          pub'[Channel][delivered[k]] = pub[Channel][delivered[k]]
    BY <1>1, <2>1, HearsIs, AppendIs DEF HearsOK
  <2>3. Acked' = Acked
    <3>1. /\ snd \in [Sends -> SendRequest] /\ snd[s].pc = "publish"
          /\ Goto(s, "members") \/ Goto(s, "err")
      BY <1>6 DEF Publish, SendPublish, DeliveryInv, TypeOK
    <3>2. /\ snd[s].pc # "ok" /\ snd'[s].pc # "ok"
          /\ \A t \in Sends \ {s} : snd'[t] = snd[t]
      BY <3>1 DEF Goto, SendRequest
    <3>3. QED  BY <3>2 DEF Acked
  <2>4. QED  BY <1>2, <1>3, <2>1, <2>2, <2>3
<1>7. QED  BY <1>4, <1>5, <1>6, Meeting DEF DeliveryInv

\* The chat implements its promise: a conversation has one order, in which
\* every listener hears it, and only what is in it is acknowledged; the lock,
\* Redis, the goroutines and restarts add or change nothing.
THEOREM ImplementsFeedCorrect == DeliverySpec => ImplementsFeed
<1>1. DeliveryInit => Promise!Init
  <2> SUFFICES ASSUME DeliveryInit PROVE Promise!Init
    OBVIOUS
  <2>1. /\ log[Channel] = <<>> /\ delivered = <<>>
        /\ \A s \in Sends : snd[s].pc = "idle"
    BY DeliveryAssumption DEF DeliveryInit, Init, C!Init
  <2>2. Hears = <<>>
    BY <2>1 DEF Hears
  <2>3. QED  BY <2>1, <2>2 DEF Promise!Init, Hears
<1>2. DeliveryInv /\ DeliveryInv' /\ [DeliveryNext]_everything
      => [Promise!Next]_(Promise!vars)
  <2>1. UNCHANGED everything => UNCHANGED Promise!vars
    BY DEF everything, vars, goroutines, Promise!vars
  <2>2. QED  BY <2>1, FeedStep
<1>3. QED
  BY <1>1, <1>2, DeliveryCorrect, PTL DEF DeliverySpec, ImplementsFeed, Promise!Spec

\* What was acknowledged is in the history, and what a listener has was said in
\* that order, nothing twice: not only step by step, but in every state that
\* senders, goroutines, errors and restarts lead to.
THEOREM HeardInOrderCorrect ==
  DeliverySpec => [](Promise!Truthful /\ Promise!HeardInOrder)
<1>1. DeliveryInv => Promise!Truthful
  <2> SUFFICES ASSUME DeliveryInv, NEW s \in Acked
               PROVE  s \in Stored(Channel)
    BY DEF Promise!Truthful, Promise!Said, Acked, Stored
  <2>1. s \in Stored(Channel)
    BY DEF Acked, DeliveryInv, AckInv, SoFar
  <2>2. QED  BY <2>1
<1>2. DeliveryInv => Promise!HeardInOrder
  <2> SUFFICES ASSUME DeliveryInv, NEW k \in 1..Len(Hears)
               PROVE  \E i \in 1..Len(log[Channel]) :
                        /\ log[Channel][i] = Hears[k]
                        /\ \A j \in 1..k - 1 :
                             /\ Hears[j] # Hears[k]
                             /\ \E h \in 1..i - 1 : log[Channel][h] = Hears[j]
    BY DEF Promise!HeardInOrder, Hears
  <2>1. /\ Len(Hears) = Len(delivered) /\ Len(delivered) \in Nat /\ Channel \in Convs
        /\ \A j \in 1..Len(delivered) :
             /\ delivered[j] \in 1..Len(pub[Channel])
             /\ Hears[j] = pub[Channel][delivered[j]]
    BY HearsIs, DeliveryAssumption DEF HearsOK, DeliveryInv, StreamInv, Typed
  <2>2. /\ Len(log[Channel]) \in Nat /\ Len(pub[Channel]) \in Nat
        /\ k \in 1..Len(delivered) /\ delivered[k] \in 1..Len(pub[Channel])
    BY <2>1 DEF DeliveryInv, TypeOK
  <2>3. PICK i \in 1..Len(log[Channel]) :
          /\ log[Channel][i] = pub[Channel][delivered[k]]
          /\ \A m \in 1..delivered[k] : \E h \in 1..i : log[Channel][h] = pub[Channel][m]
    BY <2>1, <2>2 DEF DeliveryInv, PublishedInStoreOrder
  <2>4. ASSUME NEW j \in 1..k - 1
        PROVE  /\ Hears[j] # Hears[k]
               /\ \E h \in 1..i - 1 : log[Channel][h] = Hears[j]
    <3>1. j \in 1..Len(delivered) /\ delivered[j] < delivered[k]
      BY <2>1, <2>2 DEF DeliveryInv, StreamInv, PathOK, C!InOrderWithoutGap
    <3>2. delivered[j] \in 1..delivered[k] /\ delivered[j] \in 1..Len(pub[Channel])
      BY <2>1, <2>2, <3>1
    <3>3. pub[Channel][delivered[j]] # pub[Channel][delivered[k]]
      BY <2>1, <2>2, <3>1, <3>2 DEF DeliveryInv, OnceOK
    <3>4. PICK h \in 1..i : log[Channel][h] = pub[Channel][delivered[j]]
      BY <2>3, <3>2
    <3>5. h \in 1..i - 1
      BY <2>2, <2>3, <3>3, <3>4
    <3>6. QED  BY <2>1, <2>2, <3>1, <3>3, <3>4, <3>5
  <2>5. QED  BY <2>1, <2>2, <2>3, <2>4
<1>3. QED  BY <1>1, <1>2, DeliveryCorrect, PTL

---------------------------------------------------------------------------
(* ChatHistory: the pages of a history that grows.  First how messages are *)
(* numbered in the order of (a[m], m), and what a page of them holds.      *)

Earlier(a, m, n) == a[m] < a[n] \/ (a[m] = a[n] /\ m < n)

Below(V, a, m) == {n \in V : Earlier(a, n, m)}

Nth(V, a, m) == Cardinality(Below(V, a, m))

Numbered(V, a) == IsFiniteSet(V) /\ V \subseteq Nat /\ \A m \in V : a[m] \in Nat

\* The messages numbered from lo to hi
Slice(V, a, lo, hi) == {m \in V : lo <= Nth(V, a, m) /\ Nth(V, a, m) <= hi}

\* What ZRANGEBYSCORE returns with the limit L, without the last one when
\* there is more
Given(V, a, offset, L) ==
  LET F == Slice(V, a, offset, offset + L)
  IN IF Cardinality(F) > L THEN {m \in F : \E n \in F : Earlier(a, m, n)} ELSE F

\* Messages are totally ordered.
LEMMA EarlierIsAnOrder ==
  ASSUME NEW V, NEW a, Numbered(V, a), NEW m \in V, NEW n \in V
  PROVE  /\ ~Earlier(a, m, m)
         /\ m = n \/ Earlier(a, m, n) \/ Earlier(a, n, m)
         /\ \A x \in V : Earlier(a, x, m) /\ Earlier(a, m, n) => Earlier(a, x, n)
<1>1. /\ m \in Nat /\ n \in Nat /\ a[m] \in Nat /\ a[n] \in Nat
      /\ \A x \in V : x \in Nat /\ a[x] \in Nat
  BY DEF Numbered
<1>2. ~Earlier(a, m, m) /\ (m = n \/ Earlier(a, m, n) \/ Earlier(a, n, m))
  BY <1>1 DEF Earlier
<1>3. ASSUME NEW x \in V, Earlier(a, x, m), Earlier(a, m, n)
      PROVE  Earlier(a, x, n)
  BY <1>1, <1>3 DEF Earlier
<1>4. QED  BY <1>2, <1>3

\* Numbers are natural, below the number of messages, and grow with the order.
LEMMA NthGrows ==
  ASSUME NEW V, NEW a, Numbered(V, a), NEW m \in V, NEW n \in V
  PROVE  /\ Nth(V, a, m) \in Nat /\ Nth(V, a, m) < Cardinality(V)
         /\ Earlier(a, m, n) => Nth(V, a, m) < Nth(V, a, n)
         /\ Nth(V, a, m) <= Nth(V, a, n) => m = n \/ Earlier(a, m, n)
         /\ Nth(V, a, m) = Nth(V, a, n) => m = n
<1>1. IsFiniteSet(V) /\ Cardinality(V) \in Nat
  BY FS_CardinalityType DEF Numbered
<1>2. ASSUME NEW S \in SUBSET V, NEW T \in SUBSET S, S # T
      PROVE  Cardinality(T) \in Nat /\ Cardinality(T) < Cardinality(S)
             /\ Cardinality(S) \in Nat
  <2>1. IsFiniteSet(S)
    BY <1>1, FS_Subset
  <2>2. /\ IsFiniteSet(T) /\ Cardinality(T) <= Cardinality(S)
        /\ Cardinality(S) # Cardinality(T)
    BY <1>2, <2>1, FS_Subset
  <2>3. Cardinality(S) \in Nat /\ Cardinality(T) \in Nat
    BY <2>1, <2>2, FS_CardinalityType
  <2>4. QED  BY <2>2, <2>3
<1>3. ASSUME NEW x \in V
      PROVE  Nth(V, a, x) \in Nat /\ Nth(V, a, x) < Cardinality(V)
  <2>1. Below(V, a, x) \in SUBSET V /\ x \notin Below(V, a, x)
    BY EarlierIsAnOrder DEF Below
  <2>2. V # Below(V, a, x) /\ V \in SUBSET V
    BY <2>1
  <2>3. QED  BY <1>2, <2>1, <2>2 DEF Nth
<1>4. ASSUME NEW x \in V, NEW y \in V, Earlier(a, x, y)
      PROVE  Nth(V, a, x) < Nth(V, a, y)
  <2>1. \A z \in Below(V, a, x) : z \in Below(V, a, y)
    BY <1>4, EarlierIsAnOrder DEF Below
  <2>2. x \in Below(V, a, y) /\ x \notin Below(V, a, x)
    BY <1>4, EarlierIsAnOrder DEF Below
  <2>3. /\ Below(V, a, y) \in SUBSET V /\ Below(V, a, x) \in SUBSET Below(V, a, y)
        /\ Below(V, a, y) # Below(V, a, x)
    BY <2>1, <2>2 DEF Below
  <2>4. QED  BY <1>2, <2>3 DEF Nth
<1>5. m = n \/ Earlier(a, m, n) \/ Earlier(a, n, m)
  BY EarlierIsAnOrder
<1>6. /\ Nth(V, a, m) \in Nat /\ Nth(V, a, n) \in Nat /\ Nth(V, a, m) < Cardinality(V)
      /\ Earlier(a, m, n) => Nth(V, a, m) < Nth(V, a, n)
      /\ Earlier(a, n, m) => Nth(V, a, n) < Nth(V, a, m)
  BY <1>3, <1>4
<1>7. QED  BY <1>5, <1>6

\* A number has one message: a slice has at most as many messages as numbers,
\* and exactly as many if all its numbers are taken.
LEMMA SliceSize ==
  ASSUME NEW V, NEW a, Numbered(V, a), NEW lo \in Nat, NEW hi \in Nat, lo <= hi
  PROVE  LET S == Slice(V, a, lo, hi) IN
         /\ IsFiniteSet(S) /\ Cardinality(S) \in Nat
         /\ Cardinality(S) <= hi - lo + 1
         /\ hi < Cardinality(V) => Cardinality(S) = hi - lo + 1
<1> DEFINE S == Slice(V, a, lo, hi)
           f == [m \in S |-> Nth(V, a, m)]
           c == Cardinality(V)
           g == [m \in V |-> Nth(V, a, m)]
<1>1. IsFiniteSet(V) /\ c \in Nat /\ S \in SUBSET V
  BY FS_CardinalityType DEF Numbered, Slice
<1>2. IsFiniteSet(S) /\ Cardinality(S) \in Nat
  BY <1>1, FS_Subset, FS_CardinalityType
<1>3. IsFiniteSet(lo..hi) /\ Cardinality(lo..hi) = hi - lo + 1
  BY FS_Interval
<1>4. f \in Injection(S, lo..hi)
  <2>1. f \in [S -> lo..hi]
    <3>1. \A m \in S : Nth(V, a, m) \in lo..hi
      BY NthGrows DEF Slice
    <3>2. QED  BY <3>1
  <2>2. \A m, n \in S : f[m] = f[n] => m = n
    BY <1>1, NthGrows
  <2>3. QED  BY <2>1, <2>2 DEF Injection, IsInjective
<1>5. Cardinality(S) <= hi - lo + 1
  BY <1>3, <1>4, FS_Injection
<1>6. ASSUME hi < c
      PROVE  Cardinality(S) = hi - lo + 1
  <2>1. IsFiniteSet(0..c - 1) /\ Cardinality(0..c - 1) = c
    <3>1. c - 1 \in Int /\ ~(0 > c - 1)
      BY <1>1, <1>6
    <3>2. Cardinality(0..c - 1) = (c - 1) - 0 + 1 /\ IsFiniteSet(0..c - 1)
      BY <3>1, FS_Interval
    <3>3. QED  BY <1>1, <3>2
  <2>2. g \in Injection(V, 0..c - 1)
    <3>1. g \in [V -> 0..c - 1]
      <4>1. \A m \in V : Nth(V, a, m) \in 0..c - 1
        BY <1>1, NthGrows
      <4>2. QED  BY <4>1
    <3>2. \A m, n \in V : g[m] = g[n] => m = n
      BY NthGrows
    <3>3. QED  BY <3>1, <3>2 DEF Injection, IsInjective
  <2>3. g \in Surjection(V, 0..c - 1)
    BY <2>1, <2>2, FS_Injection
  <2>4. \A k \in lo..hi : \E m \in S : f[m] = k
    <3> SUFFICES ASSUME NEW k \in lo..hi
                 PROVE  \E m \in S : f[m] = k
      OBVIOUS
    <3>1. k \in 0..c - 1
      BY <1>1, <1>6
    <3>2. PICK m \in V : g[m] = k
      BY <2>3, <3>1 DEF Surjection
    <3>3. Nth(V, a, m) = k
      BY <3>2
    <3>4. m \in S
      BY <3>3 DEF Slice
    <3>5. QED  BY <3>3, <3>4
  <2>5. f \in Surjection(S, lo..hi)
    BY <1>4, <2>4 DEF Surjection, Injection
  <2>6. QED  BY <1>2, <1>3, <1>5, <2>5, <1>4, FS_Surjection
<1>7. QED  BY <1>2, <1>5, <1>6

\* A page holds exactly the messages of the next numbers, and when there are
\* no more than the limit, all that are left.
LEMMA PageIsNext ==
  ASSUME NEW V, NEW a, Numbered(V, a), NEW offset \in Nat, NEW L \in Nat
  PROVE  LET F == Slice(V, a, offset, offset + L)
             P == Given(V, a, offset, L) IN
         /\ P \subseteq V /\ Cardinality(P) \in Nat
         /\ \A n \in V : n \in P <=> /\ offset <= Nth(V, a, n)
                                     /\ Nth(V, a, n) < offset + Cardinality(P)
         /\ ~(Cardinality(F) > L) => \A n \in V : offset <= Nth(V, a, n) => n \in P
<1> DEFINE F == Slice(V, a, offset, offset + L)
           P == Given(V, a, offset, L)
<1>1. /\ F \subseteq V /\ IsFiniteSet(F) /\ Cardinality(F) \in Nat
      /\ Cardinality(F) <= L + 1
      /\ offset + L < Cardinality(V) => Cardinality(F) = L + 1
  <2>1. /\ offset + L \in Nat /\ offset <= offset + L
        /\ (offset + L) - offset + 1 = L + 1
    OBVIOUS
  <2>2. QED  BY <2>1, SliceSize DEF Slice
<1>2. /\ P \subseteq F
      /\ Cardinality(F) > L => P = {m \in F : \E n \in F : Earlier(a, m, n)}
      /\ ~(Cardinality(F) > L) => P = F
  BY DEF Given
<1>3. IsFiniteSet(P) /\ Cardinality(P) \in Nat /\ Cardinality(P) <= Cardinality(F)
  BY <1>1, <1>2, FS_Subset, FS_CardinalityType
<1>4. \A m \in F : offset <= Nth(V, a, m) /\ Nth(V, a, m) <= offset + L
  BY DEF Slice
<1>5. \A m \in V : Nth(V, a, m) \in Nat /\ Nth(V, a, m) < Cardinality(V)
  BY NthGrows
<1>6. Cardinality(V) \in Nat
  BY FS_CardinalityType DEF Numbered
<1>7. ASSUME NEW n \in P
      PROVE  offset <= Nth(V, a, n) /\ Nth(V, a, n) < offset + Cardinality(P)
  <2> DEFINE k == Nth(V, a, n)
             S == Slice(V, a, offset, k)
  <2>1. n \in F /\ n \in V
    BY <1>1, <1>2
  <2>2. offset <= k /\ k <= offset + L /\ k \in Nat /\ k < Cardinality(V)
    BY <1>4, <1>5, <2>1
  <2>3. Cardinality(S) = k - offset + 1
    BY <2>2, SliceSize
  <2>4. ASSUME NEW x \in S
        PROVE  x \in P
    <3>1. x \in V /\ offset <= Nth(V, a, x) /\ Nth(V, a, x) <= k
      BY DEF Slice
    <3>2. x \in F
      BY <1>5, <2>2, <3>1 DEF Slice
    <3>3. CASE ~(Cardinality(F) > L)
      BY <1>2, <3>2, <3>3
    <3>4. CASE Cardinality(F) > L
      <4>1. PICK y \in F : Earlier(a, n, y)
        BY <1>2, <3>4
      <4>2. x = n \/ Earlier(a, x, n)
        BY <2>1, <3>1, NthGrows
      <4>3. Earlier(a, x, y)
        BY <1>1, <2>1, <3>1, <4>1, <4>2, EarlierIsAnOrder
      <4>4. QED  BY <1>2, <3>2, <3>4, <4>3
    <3>5. QED  BY <3>3, <3>4
  <2>5. S \in SUBSET P
    BY <2>4
  <2>6. Cardinality(S) <= Cardinality(P)
    BY <1>3, <2>5, FS_Subset
  <2> HIDE DEF k, S, P, F
  <2>7. k < offset + Cardinality(P)
    BY <1>3, <2>2, <2>3, <2>6
  <2>8. QED  BY <2>2, <2>7 DEF k
<1>8. ASSUME NEW n \in V, offset <= Nth(V, a, n),
             Nth(V, a, n) < offset + Cardinality(P)
      PROVE  n \in P
  <2> DEFINE k == Nth(V, a, n)
             S == Slice(V, a, offset, k)
  <2>1. k \in Nat /\ offset <= k /\ k < offset + Cardinality(P)
    BY <1>5, <1>8
  <2>2. k <= offset + L
    <3> HIDE DEF k, P, F
    <3>1. QED  BY <1>1, <1>3, <2>1
  <2>3. n \in F
    BY <2>1, <2>2 DEF Slice
  <2>4. CASE ~(Cardinality(F) > L)
    BY <1>2, <2>3, <2>4
  <2>5. CASE Cardinality(F) > L
    <3> SUFFICES ASSUME n \notin P
                 PROVE  FALSE
      OBVIOUS
    <3>1. \A x \in F : ~Earlier(a, n, x)
      BY <1>2, <2>3, <2>5
    <3>2. ASSUME NEW x \in F
          PROVE  x \in S
      <4>1. x = n \/ Earlier(a, x, n)
        BY <1>1, <3>1, EarlierIsAnOrder
      <4>2. Nth(V, a, x) <= k
        BY <1>1, <1>5, <4>1, NthGrows
      <4>3. QED  BY <1>1, <1>4, <4>2 DEF Slice
    <3>3. IsFiniteSet(S) /\ Cardinality(S) \in Nat /\ Cardinality(S) <= k - offset + 1
      BY <2>1, SliceSize
    <3>4. F \in SUBSET S
      BY <3>2
    <3>5. Cardinality(F) <= Cardinality(S)
      BY <3>3, <3>4, FS_Subset
    <3>6. Cardinality(P) # Cardinality(F)
      <4>1. P \in SUBSET F /\ F # P
        BY <1>2, <2>3
      <4>2. QED  BY <1>1, <4>1, FS_Subset
    <3> HIDE DEF k, P, F, S
    <3>7. QED  BY <1>1, <1>3, <2>1, <3>3, <3>5, <3>6
  <2>6. QED  BY <2>4, <2>5
<1>9. ASSUME ~(Cardinality(F) > L), NEW n \in V, offset <= Nth(V, a, n)
      PROVE  n \in P
  <2>1. Nth(V, a, n) \in Nat /\ Nth(V, a, n) < Cardinality(V)
    BY <1>5
  <2>2. Nth(V, a, n) <= offset + L
    <3>1. Cardinality(F) # L + 1
      BY <1>1, <1>9
    <3>2. ~(offset + L < Cardinality(V))
      BY <1>1, <3>1
    <3>3. QED  BY <1>6, <2>1, <3>2
  <2>3. n \in F
    BY <1>9, <2>2 DEF Slice
  <2>4. QED  BY <1>2, <1>9, <2>3
<1>10. QED  BY <1>1, <1>2, <1>3, <1>7, <1>8, <1>9

---------------------------------------------------------------------------
(* The walks of ChatHistory, as the instance H: WalkMissesNothing,         *)
(* ListenerMissesNothing and RepeatsOnlyIfOvertaken.                       *)

CONSTANTS Msgs, Walks, MessagesLimit, MaxChatMessages, JoinedAt, MaxTime

VARIABLES clock, pc, at, stored, published, locked, walk, base, listening,
          ahead, heard, dropped, repeated

H == INSTANCE ChatHistory

\* The types; a message is published only when it is stored, and stored with
\* a time after the participants joined.
HistoryOK ==
  /\ clock \in Nat /\ JoinedAt <= clock
  /\ pc \in [Msgs -> {"idle", "locking", "publishing", "sent"}]
  /\ at \in [Msgs -> Nat]
  /\ stored \subseteq Msgs /\ published \subseteq stored
  /\ walk \in [Walks -> H!WalkState] /\ base \in [Walks -> SUBSET Msgs]
  /\ listening \in [Walks -> BOOLEAN] /\ ahead \in [Walks -> BOOLEAN]
  /\ heard \in [Walks -> SUBSET Msgs] /\ dropped \in [Walks -> SUBSET Msgs]
  /\ repeated \subseteq Walks
  /\ \A m \in Msgs : /\ pc[m] # "idle" => JoinedAt <= at[m]
                     /\ m \in stored <=> pc[m] \in {"publishing", "sent"}

\* Something that sorts before what w was given was stored since w began.
Overtaken(w) ==
  \E m \in walk[w].got : \E n \in stored \ base[w] : Earlier(at, n, m)

\* A walk has been given what was there when it began up to its offset, and
\* nothing beyond it unless it was overtaken; a client that has listened since
\* before it began has heard or lost what was published since.
WalkOK(w) ==
  /\ walk[w].got \subseteq stored /\ base[w] \subseteq stored
  /\ walk[w].pc = "idle" =>
       walk[w].got = {} /\ walk[w].offset = 0 /\ w \notin repeated
  /\ walk[w].pc = "reading" =>
       /\ \A n \in base[w] : Nth(stored, at, n) < walk[w].offset => n \in walk[w].got
       /\ \/ Overtaken(w)
          \/ \A n \in walk[w].got : Nth(stored, at, n) < walk[w].offset
  /\ walk[w].pc = "done" => base[w] \subseteq walk[w].got
  /\ ahead[w] /\ walk[w].pc # "idle" =>
       listening[w] /\ published \subseteq base[w] \cup heard[w] \cup dropped[w]
  /\ w \in repeated => Overtaken(w)

\* The instance brings the operators on finite sets under names of its own.
LEMMA SameFinite == \A S : H!IsFiniteSet(S) <=> IsFiniteSet(S)
  BY DEF H!IsFiniteSet, IsFiniteSet

\* And its Cardinality
LEMMA SameCardinality == \A S : H!Cardinality(S) = Cardinality(S)
  BY DEF H!Cardinality, Cardinality

\* The code's order and pages are those of the lemmas above.
LEMMA HistoryIsNumbered ==
  ASSUME H!ChatHistoryAssumption, HistoryOK
  PROVE  /\ H!Visible = stored /\ Numbered(stored, at)
         /\ \A m \in stored : H!Rank(m) = Nth(stored, at, m)
<1>1. H!Visible = stored
  BY DEF HistoryOK, H!Visible
<1>2. Numbered(stored, at)
  <2>1. IsFiniteSet(stored)
    <3>1. IsFiniteSet(Msgs) /\ stored \in SUBSET Msgs
      BY SameFinite DEF H!ChatHistoryAssumption, HistoryOK
    <3>2. QED  BY <3>1, FS_Subset
  <2>2. QED  BY <2>1 DEF H!ChatHistoryAssumption, HistoryOK, Numbered
<1>3. \A m \in stored : H!Rank(m) = Nth(stored, at, m)
  <2> SUFFICES ASSUME NEW m \in stored
               PROVE  H!Rank(m) = Nth(stored, at, m)
    OBVIOUS
  <2>1. {n \in H!Visible : H!Precedes(n, m)} = Below(stored, at, m)
    BY <1>1 DEF H!Precedes, Below, Earlier
  <2>2. QED  BY <2>1, SameCardinality DEF H!Rank, Nth
<1>4. QED  BY <1>1, <1>2, <1>3

\* Messages that are stored keep their numbers, or are given larger ones; those
\* that no new one precedes keep them.
LEMMA NumbersGrow ==
  ASSUME NEW V, NEW a, NEW W, NEW b, Numbered(V, a), Numbered(W, b), V \subseteq W,
         \A n \in W : b[n] = a[n], NEW m \in V
  PROVE  /\ Nth(V, a, m) \in Nat /\ Nth(W, b, m) \in Nat
         /\ Nth(V, a, m) <= Nth(W, b, m)
         /\ (\A n \in W \ V : ~Earlier(b, n, m)) => Nth(V, a, m) = Nth(W, b, m)
<1>1. \A n \in V : Earlier(a, n, m) <=> Earlier(b, n, m)
  BY DEF Earlier
<1>2. Below(V, a, m) \in SUBSET Below(W, b, m)
  BY <1>1 DEF Below
<1>3. IsFiniteSet(Below(W, b, m))
  <2>1. IsFiniteSet(W) /\ Below(W, b, m) \in SUBSET W
    BY DEF Below, Numbered
  <2>2. QED  BY <2>1, FS_Subset
<1>4. Cardinality(Below(V, a, m)) <= Cardinality(Below(W, b, m))
  BY <1>2, <1>3, FS_Subset
<1>5. (\A n \in W \ V : ~Earlier(b, n, m)) => Below(V, a, m) = Below(W, b, m)
  BY <1>1 DEF Below
<1>6. Nth(V, a, m) \in Nat /\ Nth(W, b, m) \in Nat
  BY NthGrows
<1>7. QED  BY <1>4, <1>5, <1>6 DEF Nth

\* A step of the writers, or of a client that subscribes or leaves
Grows ==
  /\ walk' = walk /\ base' = base /\ repeated' = repeated
  /\ stored \subseteq stored' /\ \A n \in stored' : at'[n] = at[n]
  /\ \A w \in Walks :
       /\ ahead'[w] => /\ ahead[w]
                       /\ listening[w] => listening'[w]
                       /\ published' \ published \subseteq heard'[w] \cup dropped'[w]
       /\ heard[w] \subseteq heard'[w] /\ dropped[w] \subseteq dropped'[w]

\* What is published is heard or dropped by whoever has listened since before
\* it began to walk.
LEMMA Reaching ==
  ASSUME HistoryOK, NEW m \in Msgs, H!Reaches(m)
  PROVE  /\ heard' \in [Walks -> SUBSET Msgs] /\ dropped' \in [Walks -> SUBSET Msgs]
         /\ \A w \in Walks :
              /\ heard[w] \subseteq heard'[w] /\ dropped[w] \subseteq dropped'[w]
              /\ ahead[w] => m \in heard'[w] \cup dropped'[w]
<1>1. PICK reached \in SUBSET Walks :
        /\ heard' = [w \in Walks |-> IF w \in reached THEN heard[w] \cup {m}
                                                      ELSE heard[w]]
        /\ dropped' = [w \in Walks |-> IF ahead[w] /\ w \notin reached
                                         THEN dropped[w] \cup {m}
                                         ELSE dropped[w]]
  BY DEF H!Reaches
<1>2. QED  BY <1>1 DEF HistoryOK

\* SendMessage and the subscription of a client
LEMMA HistoryGrows ==
  ASSUME H!ChatHistoryAssumption, HistoryOK,
         \/ H!Tick \/ UNCHANGED H!vars
         \/ \E m \in Msgs : H!Stamp(m) \/ H!Store(m) \/ H!Publish(m)
         \/ \E w \in Walks : H!Listen(w) \/ H!Leave(w)
  PROVE  HistoryOK' /\ Grows
<1>1. CASE H!Tick \/ UNCHANGED H!vars
  <2>1. /\ clock' = clock \/ clock' = clock + 1
        /\ pc' = pc /\ at' = at /\ stored' = stored /\ published' = published
        /\ walk' = walk /\ base' = base /\ listening' = listening
        /\ ahead' = ahead /\ heard' = heard /\ dropped' = dropped
        /\ repeated' = repeated
    BY <1>1 DEF H!Tick, H!messages, H!walks, H!vars
  <2>2. clock' \in Nat /\ JoinedAt <= clock'
    BY <2>1 DEF HistoryOK, H!ChatHistoryAssumption
  <2>3. QED  BY <2>1, <2>2 DEF HistoryOK, Grows
<1>2. ASSUME NEW m \in Msgs, H!Stamp(m)
      PROVE  HistoryOK' /\ Grows
  <2>1. /\ pc[m] = "idle" /\ pc' = [pc EXCEPT ![m] = "locking"]
        /\ at' = [at EXCEPT ![m] = clock] /\ clock' = clock
        /\ stored' = stored /\ published' = published
        /\ walk' = walk /\ base' = base /\ listening' = listening
        /\ ahead' = ahead /\ heard' = heard /\ dropped' = dropped
        /\ repeated' = repeated
    BY <1>2 DEF H!Stamp, H!walks
  <2>2. /\ pc' \in [Msgs -> {"idle", "locking", "publishing", "sent"}]
        /\ at' \in [Msgs -> Nat]
        /\ pc'[m] = "locking" /\ at'[m] = clock
        /\ \A n \in Msgs \ {m} : pc'[n] = pc[n] /\ at'[n] = at[n]
    BY <2>1 DEF HistoryOK
  <2>3. m \notin stored
    BY <2>1 DEF HistoryOK
  <2>4. \A n \in Msgs : /\ pc'[n] # "idle" => JoinedAt <= at'[n]
                        /\ n \in stored' <=> pc'[n] \in {"publishing", "sent"}
    BY <2>1, <2>2, <2>3 DEF HistoryOK
  <2>5. HistoryOK'
    BY <2>1, <2>2, <2>4 DEF HistoryOK
  <2>6. Grows
    BY <2>1, <2>2, <2>3 DEF HistoryOK, Grows
  <2>7. QED  BY <2>5, <2>6
<1>3. ASSUME NEW m \in Msgs, H!Store(m)
      PROVE  HistoryOK' /\ Grows
  <2>1. /\ pc[m] = "locking" /\ pc' = [pc EXCEPT ![m] = "publishing"]
        /\ at' = at /\ clock' = clock
        /\ stored' = stored \cup {m} /\ published' = published
        /\ walk' = walk /\ base' = base /\ listening' = listening
        /\ ahead' = ahead /\ heard' = heard /\ dropped' = dropped
        /\ repeated' = repeated
    BY <1>3 DEF H!Store, H!walks
  <2>2. /\ pc' \in [Msgs -> {"idle", "locking", "publishing", "sent"}]
        /\ pc'[m] = "publishing" /\ \A n \in Msgs \ {m} : pc'[n] = pc[n]
    BY <2>1 DEF HistoryOK
  <2>3. \A n \in Msgs : /\ pc'[n] # "idle" => JoinedAt <= at'[n]
                        /\ n \in stored' <=> pc'[n] \in {"publishing", "sent"}
    BY <2>1, <2>2 DEF HistoryOK
  <2>4. HistoryOK'
    BY <2>1, <2>2, <2>3 DEF HistoryOK
  <2>5. QED  BY <2>1, <2>4 DEF Grows
<1>4. ASSUME NEW m \in Msgs, H!Publish(m)
      PROVE  HistoryOK' /\ Grows
  <2>1. /\ pc[m] = "publishing" /\ pc' = [pc EXCEPT ![m] = "sent"]
        /\ at' = at /\ clock' = clock /\ stored' = stored
        /\ walk' = walk /\ base' = base /\ listening' = listening
        /\ ahead' = ahead /\ repeated' = repeated
        /\ \/ published' = published \cup {m} /\ H!Reaches(m)
           \/ published' = published /\ heard' = heard /\ dropped' = dropped
    BY <1>4 DEF H!Publish
  <2>2. /\ pc' \in [Msgs -> {"idle", "locking", "publishing", "sent"}]
        /\ pc'[m] = "sent" /\ \A n \in Msgs \ {m} : pc'[n] = pc[n]
    BY <2>1 DEF HistoryOK
  <2>3. \A n \in Msgs : /\ pc'[n] # "idle" => JoinedAt <= at'[n]
                        /\ n \in stored' <=> pc'[n] \in {"publishing", "sent"}
    BY <2>1, <2>2 DEF HistoryOK
  <2>4. published' \subseteq stored'
    BY <2>1 DEF HistoryOK
  <2>5. /\ heard' \in [Walks -> SUBSET Msgs] /\ dropped' \in [Walks -> SUBSET Msgs]
        /\ \A w \in Walks :
             /\ heard[w] \subseteq heard'[w] /\ dropped[w] \subseteq dropped'[w]
             /\ ahead[w] => published' \ published \subseteq heard'[w] \cup dropped'[w]
    BY <2>1, Reaching DEF HistoryOK
  <2>6. HistoryOK'
    BY <2>1, <2>2, <2>3, <2>4, <2>5 DEF HistoryOK
  <2>7. Grows
    BY <2>1, <2>5 DEF Grows
  <2>8. QED  BY <2>6, <2>7
<1>5. ASSUME NEW w \in Walks, H!Listen(w)
      PROVE  HistoryOK' /\ Grows
  <2>1. /\ listening' = [listening EXCEPT ![w] = TRUE]
        /\ clock' = clock /\ pc' = pc /\ at' = at /\ stored' = stored
        /\ published' = published /\ walk' = walk /\ base' = base
        /\ ahead' = ahead /\ heard' = heard /\ dropped' = dropped
        /\ repeated' = repeated
    BY <1>5 DEF H!Listen, H!messages
  <2>2. /\ listening' \in [Walks -> BOOLEAN]
        /\ \A v \in Walks : listening[v] => listening'[v]
    BY <2>1 DEF HistoryOK
  <2>3. HistoryOK'
    BY <2>1, <2>2 DEF HistoryOK
  <2>4. QED  BY <2>1, <2>2, <2>3 DEF Grows
<1>6. ASSUME NEW w \in Walks, H!Leave(w)
      PROVE  HistoryOK' /\ Grows
  <2>1. /\ listening' = [listening EXCEPT ![w] = FALSE]
        /\ ahead' = [ahead EXCEPT ![w] = FALSE]
        /\ clock' = clock /\ pc' = pc /\ at' = at /\ stored' = stored
        /\ published' = published /\ walk' = walk /\ base' = base
        /\ heard' = heard /\ dropped' = dropped /\ repeated' = repeated
    BY <1>6 DEF H!Leave, H!messages
  <2>2. /\ listening' \in [Walks -> BOOLEAN] /\ ahead' \in [Walks -> BOOLEAN]
        /\ \A v \in Walks : ahead'[v] => ahead[v] /\ listening'[v] = listening[v]
    BY <2>1 DEF HistoryOK
  <2>3. HistoryOK'
    BY <2>1, <2>2 DEF HistoryOK
  <2>4. QED  BY <2>1, <2>2, <2>3 DEF Grows
<1>7. QED  BY <1>1, <1>2, <1>3, <1>4, <1>5, <1>6

\* A walk stays as it should be while the history grows.
LEMMA WalkStays ==
  ASSUME H!ChatHistoryAssumption, HistoryOK, HistoryOK', Grows,
         NEW w \in Walks, WalkOK(w)
  PROVE  WalkOK(w)'
<1>1. Numbered(stored, at) /\ Numbered(stored', at')
  <2>1. IsFiniteSet(stored) /\ IsFiniteSet(stored')
    <3>1. /\ IsFiniteSet(Msgs) /\ stored \in SUBSET Msgs
          /\ stored' \in SUBSET Msgs
      BY SameFinite DEF H!ChatHistoryAssumption, HistoryOK
    <3>2. QED  BY <3>1, FS_Subset
  <2>2. QED  BY <2>1 DEF H!ChatHistoryAssumption, HistoryOK, Numbered
<1>2. /\ walk' = walk /\ base' = base /\ repeated' = repeated
      /\ stored \subseteq stored' /\ \A n \in stored' : at'[n] = at[n]
      /\ walk[w].got \subseteq stored /\ base[w] \subseteq stored
  BY DEF Grows, WalkOK
<1>3. \A m \in stored :
        /\ Nth(stored, at, m) \in Nat /\ Nth(stored', at', m) \in Nat
        /\ Nth(stored, at, m) <= Nth(stored', at', m)
        /\ (\A n \in stored' \ stored : ~Earlier(at', n, m)) =>
             Nth(stored, at, m) = Nth(stored', at', m)
  BY <1>1, <1>2, NumbersGrow
<1>4. Overtaken(w) => Overtaken(w)'
  BY <1>2 DEF Overtaken, Earlier
<1>5. walk[w].offset \in Nat
  BY DEF HistoryOK, H!WalkState
<1>6. ASSUME walk[w].pc = "reading", NEW n \in base[w],
             Nth(stored', at', n) < walk[w].offset
      PROVE  n \in walk[w].got
  <2>1. Nth(stored, at, n) < walk[w].offset
    BY <1>2, <1>3, <1>5, <1>6
  <2>2. QED  BY <1>6, <2>1 DEF WalkOK
<1>7. ASSUME walk[w].pc = "reading", ~Overtaken(w)', NEW n \in walk[w].got
      PROVE  Nth(stored', at', n) < walk[w].offset
  <2>1. \A x \in stored' \ stored : ~Earlier(at', x, n)
    BY <1>2, <1>7 DEF Overtaken
  <2>2. Nth(stored', at', n) = Nth(stored, at, n)
    BY <1>2, <1>3, <1>7, <2>1
  <2>3. Nth(stored, at, n) < walk[w].offset
    BY <1>4, <1>7 DEF WalkOK
  <2>4. QED  BY <2>2, <2>3
<1>8. ahead'[w] /\ walk[w].pc # "idle" =>
        listening'[w] /\ published' \subseteq base[w] \cup heard'[w] \cup dropped'[w]
  BY DEF WalkOK, Grows
<1>9. QED
  <2>1. /\ walk'[w].got \subseteq stored' /\ base'[w] \subseteq stored'
        /\ walk'[w].pc = "idle" =>
             walk'[w].got = {} /\ walk'[w].offset = 0 /\ w \notin repeated'
        /\ walk'[w].pc = "done" => base'[w] \subseteq walk'[w].got
        /\ w \in repeated' => Overtaken(w)'
    BY <1>2, <1>4 DEF WalkOK
  <2>2. walk'[w].pc = "reading" =>
          /\ \A n \in base'[w] : Nth(stored', at', n) < walk'[w].offset =>
                                   n \in walk'[w].got
          /\ \/ Overtaken(w)'
             \/ \A n \in walk'[w].got : Nth(stored', at', n) < walk'[w].offset
    BY <1>2, <1>6, <1>7
  <2>3. ahead'[w] /\ walk'[w].pc # "idle" =>
          /\ listening'[w]
          /\ published' \subseteq base'[w] \cup heard'[w] \cup dropped'[w]
    BY <1>2, <1>8
  <2>4. QED  BY <2>1, <2>2, <2>3 DEF WalkOK

\* A walk that the step of another one leaves alone
LEMMA OtherWalks ==
  ASSUME NEW w \in Walks, WalkOK(w), stored' = stored, at' = at,
         published' = published, heard' = heard, dropped' = dropped,
         listening' = listening,
         walk'[w] = walk[w], base'[w] = base[w], ahead'[w] = ahead[w],
         w \in repeated' <=> w \in repeated
  PROVE  WalkOK(w)'
<1>1. Overtaken(w)' <=> Overtaken(w)
  BY DEF Overtaken
<1>2. QED  BY <1>1 DEF WalkOK

\* A client begins to walk.
LEMMA WalkBegins ==
  ASSUME H!ChatHistoryAssumption, HistoryOK, \A w \in Walks : WalkOK(w),
         NEW v \in Walks, H!Begin(v)
  PROVE  HistoryOK' /\ \A w \in Walks : WalkOK(w)'
<1> DEFINE x == [walk[v] EXCEPT !.pc = "reading"]
<1>1. /\ walk[v].pc = "idle" /\ walk' = [walk EXCEPT ![v] = x]
      /\ base' = [base EXCEPT ![v] = stored]
      /\ ahead' = [ahead EXCEPT ![v] = listening[v]]
      /\ clock' = clock /\ pc' = pc /\ at' = at /\ stored' = stored
      /\ published' = published /\ listening' = listening
      /\ heard' = heard /\ dropped' = dropped /\ repeated' = repeated
  BY HistoryIsNumbered DEF H!Begin, H!messages
<1>2. /\ x \in H!WalkState /\ x.pc = "reading" /\ x.got = {}
      /\ x.offset \in Nat /\ x.offset = walk[v].offset
  <2>1. walk[v] \in H!WalkState /\ walk[v].got = {}
    BY <1>1 DEF HistoryOK, WalkOK
  <2>2. QED  BY <2>1 DEF H!WalkState
<1> HIDE DEF x
<1>3. /\ walk' \in [Walks -> H!WalkState] /\ base' \in [Walks -> SUBSET Msgs]
      /\ ahead' \in [Walks -> BOOLEAN]
      /\ walk'[v] = x /\ base'[v] = stored /\ ahead'[v] = listening[v]
      /\ \A w \in Walks \ {v} : /\ walk'[w] = walk[w] /\ base'[w] = base[w]
                                /\ ahead'[w] = ahead[w]
  BY <1>1, <1>2 DEF HistoryOK
<1>4. HistoryOK'
  BY <1>1, <1>3 DEF HistoryOK
<1>5. \A w \in Walks \ {v} : WalkOK(w)'
  BY <1>1, <1>3, OtherWalks
<1>6. WalkOK(v)'
  <2>1. v \notin repeated
    BY <1>1 DEF WalkOK
  <2>2. published \subseteq stored
    BY DEF HistoryOK
  <2>3. \A n \in stored : Nth(stored, at, n) < x.offset => n \in x.got
    <3>1. x.offset = 0
      BY <1>1, <1>2 DEF WalkOK
    <3>2. \A n \in stored : Nth(stored, at, n) \in Nat
      BY NthGrows, HistoryIsNumbered
    <3>3. QED  BY <3>1, <3>2
  <2>4. walk'[v].pc = "reading" /\ walk'[v].got = {} /\ base'[v] = stored'
        /\ walk'[v].offset = x.offset
    BY <1>1, <1>2, <1>3
  <2>5. ahead'[v] => /\ listening'[v]
                     /\ published' \subseteq base'[v] \cup heard'[v] \cup dropped'[v]
    BY <1>1, <1>3, <2>2
  <2>6. QED  BY <1>1, <1>2, <2>1, <2>3, <2>4, <2>5 DEF WalkOK
<1>7. QED  BY <1>4, <1>5, <1>6

\* The pages of the code
LEMMA PageIs ==
  ASSUME H!ChatHistoryAssumption, HistoryOK, NEW offset \in Nat
  PROVE  /\ H!Page(offset) = Given(stored, at, offset, MessagesLimit)
         /\ H!HasMore(offset) <=>
              Cardinality(Slice(stored, at, offset, offset + MessagesLimit)) > MessagesLimit
<1>1. MessagesLimit \in Nat
  BY DEF H!ChatHistoryAssumption
<1>2. \A m \in stored : H!Rank(m) = Nth(stored, at, m) /\ Nth(stored, at, m) \in Nat
  BY HistoryIsNumbered, NthGrows
<1>3. H!Fetched(offset) = Slice(stored, at, offset, offset + MessagesLimit)
  <2>1. \A m \in stored : H!Rank(m) < offset + MessagesLimit + 1 <=>
                            Nth(stored, at, m) <= offset + MessagesLimit
    BY <1>1, <1>2
  <2>2. H!Visible = stored
    BY HistoryIsNumbered
  <2>3. QED  BY <1>2, <2>1, <2>2 DEF H!Fetched, Slice
<1>4. H!HasMore(offset) <=>
        Cardinality(Slice(stored, at, offset, offset + MessagesLimit)) > MessagesLimit
  BY <1>3, SameCardinality DEF H!HasMore
<1>5. QED  BY <1>3, <1>4 DEF H!Page, Given, H!Precedes, Earlier

\* A client is given a page.
LEMMA WalkGoesOn ==
  ASSUME H!ChatHistoryAssumption, HistoryOK, \A w \in Walks : WalkOK(w),
         NEW v \in Walks, H!GetMessages(v)
  PROVE  HistoryOK' /\ \A w \in Walks : WalkOK(w)'
<1> DEFINE offset == walk[v].offset
           page == Given(stored, at, offset, MessagesLimit)
           more == H!HasMore(offset)
           x == [walk[v] EXCEPT !.offset = offset + Cardinality(page),
                                !.got = walk[v].got \cup page,
                                !.pc = IF more THEN "reading" ELSE "done"]
           Number(n) == Nth(stored, at, n)
<1>1. /\ walk[v] \in H!WalkState /\ offset \in Nat /\ MessagesLimit \in Nat
      /\ Numbered(stored, at)
  BY HistoryIsNumbered DEF HistoryOK, H!WalkState, H!ChatHistoryAssumption
<1>2. H!Page(offset) = page
  BY <1>1, PageIs
<1>3. /\ walk[v].pc = "reading" /\ walk' = [walk EXCEPT ![v] = x]
      /\ repeated' = IF page \cap walk[v].got # {} THEN repeated \cup {v}
                                                   ELSE repeated
      /\ base' = base /\ ahead' = ahead
      /\ clock' = clock /\ pc' = pc /\ at' = at /\ stored' = stored
      /\ published' = published /\ listening' = listening
      /\ heard' = heard /\ dropped' = dropped
  BY <1>2, SameCardinality DEF H!GetMessages, H!messages
<1>4. /\ page \subseteq stored /\ Cardinality(page) \in Nat
      /\ \A n \in stored : n \in page <=> /\ offset <= Number(n)
                                          /\ Number(n) < offset + Cardinality(page)
      /\ ~more => \A n \in stored : offset <= Number(n) => n \in page
  <2>1. more <=> Cardinality(Slice(stored, at, offset, offset + MessagesLimit))
                   > MessagesLimit
    BY <1>1, PageIs
  <2>2. QED  BY <1>1, <2>1, PageIsNext
<1>5. \A n \in stored : Number(n) \in Nat
  BY <1>1, NthGrows
<1>6. /\ x \in H!WalkState /\ x.pc = (IF more THEN "reading" ELSE "done")
      /\ x.got = walk[v].got \cup page /\ x.offset = offset + Cardinality(page)
  <2>1. walk[v].got \subseteq Msgs /\ page \subseteq Msgs
    BY <1>1, <1>4 DEF HistoryOK, H!WalkState
  <2> HIDE DEF page, more
  <2>2. offset + Cardinality(page) \in Nat
    BY <1>1, <1>4
  <2>3. QED  BY <1>1, <2>1, <2>2 DEF H!WalkState
<1> HIDE DEF x, page, more
<1>7. /\ walk' \in [Walks -> H!WalkState] /\ walk'[v] = x
      /\ \A w \in Walks \ {v} : walk'[w] = walk[w]
  BY <1>3, <1>6 DEF HistoryOK
<1>8. HistoryOK'
  <2>1. repeated' \subseteq Walks
    BY <1>3 DEF HistoryOK
  <2>2. QED  BY <1>3, <1>7, <2>1 DEF HistoryOK
<1>9. \A w \in Walks \ {v} : WalkOK(w)'
  <2>1. \A w \in Walks \ {v} : w \in repeated' <=> w \in repeated
    BY <1>3
  <2>2. QED  BY <1>3, <1>7, <2>1, OtherWalks
<1>10. /\ walk[v].got \subseteq stored /\ base[v] \subseteq stored
       /\ \A n \in base[v] : Number(n) < offset => n \in walk[v].got
       /\ Overtaken(v) \/ \A n \in walk[v].got : Number(n) < offset
       /\ ahead[v] => /\ listening[v]
                      /\ published \subseteq base[v] \cup heard[v] \cup dropped[v]
       /\ v \in repeated => Overtaken(v)
  BY <1>3 DEF WalkOK
<1>11. Overtaken(v) => Overtaken(v)'
  BY <1>3, <1>6, <1>7 DEF Overtaken
<1>12. WalkOK(v)'
  <2>1. x.got \subseteq stored
    BY <1>4, <1>6, <1>10
  <2>2. ASSUME NEW n \in base[v], Number(n) < x.offset
        PROVE  n \in x.got
    <3>1. n \in stored /\ Number(n) \in Nat
      BY <1>5, <1>10, <2>2
    <3>2. CASE Number(n) < offset
      BY <1>6, <1>10, <2>2, <3>2
    <3>3. CASE ~(Number(n) < offset)
      <4>1. offset <= Number(n)
        BY <1>1, <3>1, <3>3
      <4>2. n \in page
        BY <1>4, <1>6, <2>2, <3>1, <4>1
      <4>3. QED  BY <1>6, <4>2
    <3>4. QED  BY <3>2, <3>3
  <2>3. ASSUME ~Overtaken(v), NEW n \in x.got
        PROVE  Number(n) < x.offset
    <3>1. n \in stored /\ Number(n) \in Nat
      BY <1>5, <2>1, <2>3
    <3>2. CASE n \in page
      BY <1>4, <1>6, <3>1, <3>2
    <3>3. CASE n \in walk[v].got
      <4>1. Number(n) < offset
        BY <1>10, <2>3, <3>3
      <4>2. QED  BY <1>1, <1>4, <1>6, <3>1, <4>1
    <3>4. QED  BY <1>6, <2>3, <3>2, <3>3
  <2>4. ASSUME ~more
        PROVE  base[v] \subseteq x.got
    <3> SUFFICES ASSUME NEW n \in base[v]
                 PROVE  n \in x.got
      OBVIOUS
    <3>1. n \in stored /\ Number(n) \in Nat
      BY <1>5, <1>10
    <3>2. CASE Number(n) < offset
      BY <1>6, <1>10, <3>2
    <3>3. CASE ~(Number(n) < offset)
      <4>1. offset <= Number(n)
        BY <1>1, <3>1, <3>3
      <4>2. n \in page
        BY <1>4, <2>4, <3>1, <4>1
      <4>3. QED  BY <1>6, <4>2
    <3>4. QED  BY <3>2, <3>3
  <2>5. ASSUME v \in repeated'
        PROVE  Overtaken(v)
    <3>1. CASE page \cap walk[v].got # {}
      <4>1. PICK n \in page : n \in walk[v].got
        BY <3>1
      <4>2. offset <= Number(n) /\ Number(n) \in Nat
        BY <1>4, <1>5, <4>1
      <4>3. ~(Number(n) < offset)
        BY <1>1, <4>2
      <4>4. QED  BY <1>10, <4>1, <4>3
    <3>2. CASE page \cap walk[v].got = {}
      BY <1>3, <1>10, <2>5, <3>2
    <3>3. QED  BY <3>1, <3>2
  <2>6. /\ walk'[v] = x /\ stored' = stored /\ at' = at /\ base'[v] = base[v]
        /\ ahead'[v] = ahead[v] /\ listening' = listening
        /\ published' = published /\ heard' = heard /\ dropped' = dropped
        /\ x.pc = "reading" \/ (x.pc = "done" /\ ~more)
    BY <1>3, <1>6, <1>7
  <2>7. walk'[v].pc = "reading" =>
          /\ \A n \in base'[v] : Nth(stored', at', n) < walk'[v].offset =>
                                   n \in walk'[v].got
          /\ \/ Overtaken(v)'
             \/ \A n \in walk'[v].got : Nth(stored', at', n) < walk'[v].offset
    BY <1>11, <2>2, <2>3, <2>6
  <2>8. /\ walk'[v].got \subseteq stored' /\ base'[v] \subseteq stored'
        /\ walk'[v].pc # "idle"
        /\ walk'[v].pc = "done" => base'[v] \subseteq walk'[v].got
    BY <1>10, <2>1, <2>4, <2>6
  <2>9. /\ v \in repeated' => Overtaken(v)'
        /\ ahead'[v] => /\ listening'[v]
                        /\ published' \subseteq base'[v] \cup heard'[v] \cup dropped'[v]
    BY <1>10, <1>11, <2>5, <2>6
  <2>10. QED  BY <2>7, <2>8, <2>9 DEF WalkOK
<1>13. QED  BY <1>8, <1>9, <1>12

\* The types of the history, and what every walk was given and has heard
THEOREM ChatHistoryCorrect ==
  H!ChatHistoryAssumption /\ H!Spec =>
    [](H!ChatHistoryAssumption /\ HistoryOK /\ \A w \in Walks : WalkOK(w))
<1> DEFINE Walked == HistoryOK /\ \A w \in Walks : WalkOK(w)
<1>1. H!ChatHistoryAssumption /\ H!Init => H!ChatHistoryAssumption /\ Walked
  <2> SUFFICES ASSUME H!ChatHistoryAssumption, H!Init
               PROVE  Walked
    OBVIOUS
  <2>1. [pc |-> "idle", offset |-> 0, got |-> {}] \in H!WalkState
    BY DEF H!WalkState
  <2>2. HistoryOK
    BY <2>1 DEF H!Init, H!ChatHistoryAssumption, HistoryOK
  <2>3. \A w \in Walks : walk[w].pc = "idle" /\ walk[w].offset = 0
                         /\ walk[w].got = {} /\ base[w] = {}
    BY DEF H!Init
  <2>4. \A w \in Walks : WalkOK(w)
    BY <2>3 DEF H!Init, WalkOK
  <2>5. QED  BY <2>2, <2>4
<1>2. H!ChatHistoryAssumption /\ Walked /\ [H!Next]_H!vars =>
        (H!ChatHistoryAssumption /\ Walked)'
  <2> SUFFICES ASSUME H!ChatHistoryAssumption, Walked, [H!Next]_H!vars
               PROVE  Walked'
    BY DEF H!ChatHistoryAssumption
  <2>1. CASE \/ H!Tick \/ UNCHANGED H!vars
             \/ \E m \in Msgs : H!Stamp(m) \/ H!Store(m) \/ H!Publish(m)
             \/ \E w \in Walks : H!Listen(w) \/ H!Leave(w)
    <3>1. HistoryOK' /\ Grows
      BY <2>1, HistoryGrows
    <3>2. \A w \in Walks : WalkOK(w)'
      BY <3>1, WalkStays
    <3>3. QED  BY <3>1, <3>2
  <2>2. CASE \E w \in Walks : H!Begin(w)
    BY <2>2, WalkBegins
  <2>3. CASE \E w \in Walks : H!GetMessages(w)
    BY <2>3, WalkGoesOn
  <2>4. QED  BY <2>1, <2>2, <2>3 DEF H!Next, H!Finished
<1> HIDE DEF Walked
<1>3. H!ChatHistoryAssumption /\ H!Spec => [](H!ChatHistoryAssumption /\ Walked)
  BY <1>1, <1>2, PTL DEF H!Spec
<1>4. QED  BY <1>3 DEF Walked

\* A walk that has reached the end was given every message stored when it
\* began: no page of GetMessages begins past a message.
THEOREM WalkMissesNothingCorrect ==
  H!ChatHistoryAssumption /\ H!Spec => []H!WalkMissesNothing
<1>1. H!ChatHistoryAssumption /\ HistoryOK /\ (\A w \in Walks : WalkOK(w)) =>
        H!WalkMissesNothing
  BY DEF WalkOK, H!WalkMissesNothing
<1>2. QED  BY <1>1, ChatHistoryCorrect, PTL

\* A client that has been subscribed since before it began to walk misses a
\* published message only if the subscription lost it after the walk began,
\* because SendMessage stores before it publishes.
THEOREM ListenerMissesNothingCorrect ==
  H!ChatHistoryAssumption /\ H!Spec => []H!ListenerMissesNothing
<1>1. H!ChatHistoryAssumption /\ HistoryOK /\ (\A w \in Walks : WalkOK(w)) =>
        H!ListenerMissesNothing
  BY DEF WalkOK, H!ListenerMissesNothing
<1>2. QED  BY <1>1, ChatHistoryCorrect, PTL

\* GetMessages gives a message to a walk twice only if one that sorts before
\* it was stored meanwhile.
THEOREM RepeatsOnlyIfOvertakenCorrect ==
  H!ChatHistoryAssumption /\ H!Spec => []H!RepeatsOnlyIfOvertaken
<1>1. H!ChatHistoryAssumption /\ HistoryOK /\ (\A w \in Walks : WalkOK(w)) =>
        H!RepeatsOnlyIfOvertaken
  <2> SUFFICES ASSUME H!ChatHistoryAssumption, HistoryOK,
                      \A w \in Walks : WalkOK(w), NEW w \in repeated
               PROVE  \E m \in walk[w].got : \E n \in H!Visible \ base[w] :
                        H!Precedes(n, m)
    BY DEF H!RepeatsOnlyIfOvertaken
  <2>1. H!Visible = stored /\ w \in Walks
    BY HistoryIsNumbered DEF HistoryOK
  <2>2. Overtaken(w)
    BY <2>1 DEF WalkOK
  <2>3. QED  BY <2>1, <2>2 DEF Overtaken, H!Precedes, Earlier
<1>2. QED  BY <1>1, ChatHistoryCorrect, PTL
============================================================================
