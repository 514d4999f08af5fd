--------------------------- MODULE RunStream_proofs ---------------------------
(***************************************************************************)
(* What RunHub promises its subscribers, proved of RunStream for any       *)
(* number of turns, readers, run states, tokens and faults: the invariant  *)
(* StreamInv and its parts.  Readers change only by publish, which adds an *)
(* event at the end of a buffer and of the queues attached to it, and by   *)
(* their own steps, which move an event from one of their parts to another.*)
(***************************************************************************)
EXTENDS RunStream, TLAPS

-----------------------------------------------------------------------------
(* Sequences.                                                              *)

\* Publishing at the end of a queue publishes at the end of the whole.
LEMMA AppendToQueue ==
  \A s, t, q \in Seq(Event), e \in Event :
    s \o t \o Append(q, e) = Append(s \o t \o q, e)
  OBVIOUS

\* Delivering the head of the middle part leaves the whole unchanged.
LEMMA DeliverSnapshot ==
  \A s, t, q \in Seq(Event) :
    t # <<>> => Append(s, Head(t)) \o Tail(t) \o q = s \o t \o q
<1> TAKE s, t, q \in Seq(Event)
<1> HAVE t # <<>>
<1> QED
  OBVIOUS

\* Delivering the head of the queue does, once the middle part is empty.
LEMMA DeliverQueue ==
  \A s, q \in Seq(Event) :
    q # <<>> => Append(s, Head(q)) \o <<>> \o Tail(q) = s \o <<>> \o q
<1> TAKE s, q \in Seq(Event)
<1> HAVE q # <<>>
<1> QED
  OBVIOUS

LEMMA PrefixOfWhole ==
  \A s, t, q \in Seq(Event) : IsPrefix(s, s \o t \o q)
  BY DEF IsPrefix

\* A fresh snapshot is all there is to replay.
LEMMA SnapshotIsWhole ==
  \A s \in Seq(Event) : <<>> \o s \o <<>> = s /\ IsPrefix(<<>>, s)
<1> TAKE s \in Seq(Event)
<1>1. <<>> \o s \o <<>> = s
  OBVIOUS
<1>2. IsPrefix(<<>>, s)
  BY DEF IsPrefix
<1> QED
  BY <1>1, <1>2

LEMMA PrefixGrows ==
  \A s, t \in Seq(Event), e \in Event : IsPrefix(s, t) => IsPrefix(s, Append(t, e))
<1> TAKE s, t \in Seq(Event), e \in Event
<1> HAVE IsPrefix(s, t)
<1>1. Len(s) <= Len(t) /\ SubSeq(s, 1, Len(s)) = SubSeq(t, 1, Len(s))
  BY DEF IsPrefix
<1>2. SubSeq(Append(t, e), 1, Len(s)) = SubSeq(t, 1, Len(s))
  BY <1>1
<1>3. Len(Append(t, e)) = Len(t) + 1 /\ Len(t) \in Nat /\ Len(s) \in Nat
  OBVIOUS
<1> QED
  BY <1>1, <1>2, <1>3 DEF IsPrefix

LEMMA SequenceParts ==
  /\ <<>> \in Seq(Event)
  /\ \A s \in Seq(Event) : s # <<>> => Head(s) \in Event /\ Tail(s) \in Seq(Event)
  /\ \A s \in Seq(Event), e \in Event : Append(s, e) \in Seq(Event)
<1>1. ASSUME NEW S
      PROVE  /\ <<>> \in Seq(S)
             /\ \A s \in Seq(S) : s # <<>> => Head(s) \in S /\ Tail(s) \in Seq(S)
             /\ \A s \in Seq(S), e \in S : Append(s, e) \in Seq(S)
  OBVIOUS
<1> QED
  BY <1>1

-----------------------------------------------------------------------------
(* The hub.                                                                *)

\* ensure returns a state object of the run.
LEMMA EnsuredIsState ==
  ASSUME TypeOK, CanEnsure
  PROVE  Ensured \in State
  BY DEF TypeOK, CanEnsure, Ensured

\* Every event the code publishes is one.
LEMMA EventsAreEvents ==
  ASSUME NEW t \in Turn
  PROVE  /\ Ev("run", t, 0) \in Event /\ Ev("done", t, 0) \in Event
         /\ Ev("error", t, 0) \in Event
         /\ \A n \in 0 .. MaxTokens : Ev("token", t, n) \in Event
  BY BoundsAssumption DEF Event, Ev

\* The part of the invariant that says what the readers hold.
ReadersInv ==
  /\ reader \in [Reader -> ReaderState]
  /\ buffer \in [State -> Seq(Event)]
  /\ made \subseteq State /\ current \in made \cup {None}
  /\ StreamsSound /\ DeliveryAccounted /\ DeliversPrefix

\* publish keeps what the readers hold accounted for.
LEMMA PublishKeepsReaders ==
  ASSUME TypeOK, ReadersInv, NEW e \in Event, Publish(e)
  PROVE  ReadersInv'
<1> DEFINE s == Ensured
<1>1. /\ s \in State /\ made' = made \cup {s} /\ current' = s
      /\ buffer' = [buffer EXCEPT ![s] = Append(buffer[s], e)]
  BY EnsuredIsState DEF Publish, Ensure
<1>2. buffer' \in [State -> Seq(Event)]
  BY <1>1 DEF ReadersInv
<1>3. ASSUME NEW c \in Reader
      PROVE  /\ reader'[c] \in ReaderState
             /\ reader'[c].pc = reader[c].pc /\ reader'[c].state = reader[c].state
             /\ reader'[c].got = reader[c].got
             /\ reader'[c].snapshot = reader[c].snapshot
             /\ reader'[c].queue = IF Subscribed(c, s) THEN Append(reader[c].queue, e)
                                                     ELSE reader[c].queue
  <2>1. reader[c] \in ReaderState
    BY DEF ReadersInv
  <2>2. \A r \in ReaderState :
          LET new == [r EXCEPT !.queue = Append(r.queue, e)]
          IN  /\ new \in ReaderState /\ new.pc = r.pc /\ new.state = r.state
              /\ new.got = r.got /\ new.snapshot = r.snapshot
              /\ new.queue = Append(r.queue, e)
    <3> SUFFICES ASSUME NEW r \in ReaderState
                 PROVE  LET new == [r EXCEPT !.queue = Append(r.queue, e)]
                        IN  /\ new \in ReaderState /\ new.pc = r.pc /\ new.state = r.state
                            /\ new.got = r.got /\ new.snapshot = r.snapshot
                            /\ new.queue = Append(r.queue, e)
      OBVIOUS
    <3>1. Append(r.queue, e) \in Seq(Event)
      BY DEF ReaderState
    <3>2. \A q \in Seq(Event) :
            LET new == [r EXCEPT !.queue = q]
            IN  /\ new \in ReaderState /\ new.pc = r.pc /\ new.state = r.state
                /\ new.got = r.got /\ new.snapshot = r.snapshot /\ new.queue = q
      BY DEF ReaderState
    <3> QED
      BY <3>1, <3>2
  <2>3. reader'[c] = IF Subscribed(c, s)
                     THEN [reader[c] EXCEPT !.queue = Append(reader[c].queue, e)]
                     ELSE reader[c]
    BY DEF Publish
  <2> QED
    BY <2>1, <2>2, <2>3
<1>4. reader' \in [Reader -> ReaderState]
  BY <1>3 DEF Publish
<1>5. ASSUME NEW c \in Reader, reader'[c].pc \in {"replay", "live"}
      PROVE  reader'[c].got \o reader'[c].snapshot \o reader'[c].queue
               = buffer'[reader'[c].state]
  <2>1. /\ reader[c].got \in Seq(Event) /\ reader[c].snapshot \in Seq(Event)
        /\ reader[c].queue \in Seq(Event) /\ reader[c].state \in State
        /\ reader[c].got \o reader[c].snapshot \o reader[c].queue = buffer[reader[c].state]
    BY <1>3, <1>5 DEF ReadersInv, StreamsSound, DeliveryAccounted, ReaderState
  <2>2. CASE reader[c].state = s
    <3>1. reader'[c].queue = Append(reader[c].queue, e)
      BY <1>3, <1>5, <2>2 DEF Subscribed
    <3>2. buffer'[reader'[c].state] = Append(buffer[reader[c].state], e)
      BY <1>1, <1>3, <2>1, <2>2 DEF ReadersInv
    <3>3. reader[c].got \o reader[c].snapshot \o Append(reader[c].queue, e)
            = Append(reader[c].got \o reader[c].snapshot \o reader[c].queue, e)
      BY <2>1, AppendToQueue
    <3>4. reader[c].got \o reader[c].snapshot \o Append(reader[c].queue, e)
            = Append(buffer[reader[c].state], e)
      BY <2>1, <3>3
    <3> QED
      BY <1>3, <3>1, <3>2, <3>4
  <2>3. CASE reader[c].state # s
    BY <1>1, <1>3, <2>1, <2>3 DEF ReadersInv, Subscribed
  <2> QED
    BY <2>2, <2>3
<1>6. ASSUME NEW c \in Reader, reader'[c].state # None
      PROVE  IsPrefix(reader'[c].got, buffer'[reader'[c].state])
  <2>1. /\ reader[c].got \in Seq(Event) /\ reader[c].state \in State
        /\ IsPrefix(reader[c].got, buffer[reader[c].state])
    BY <1>3, <1>6 DEF ReadersInv, DeliversPrefix, ReaderState
  <2>2. \/ buffer'[reader[c].state] = buffer[reader[c].state]
        \/ buffer'[reader[c].state] = Append(buffer[reader[c].state], e)
    BY <1>1, <2>1 DEF ReadersInv
  <2>3. IsPrefix(reader[c].got, Append(buffer[reader[c].state], e))
    BY <2>1, PrefixGrows DEF ReadersInv
  <2>4. IsPrefix(reader[c].got, buffer'[reader[c].state])
    BY <2>1, <2>2, <2>3
  <2> QED
    BY <1>3, <2>4
<1>7. ASSUME NEW c \in Reader
      PROVE  /\ reader'[c].pc \in {"replay", "live"} => reader'[c].state # None
             /\ reader'[c].pc = "live" => reader'[c].snapshot = <<>>
             /\ reader'[c].pc \notin {"replay", "live", "closed"} =>
                  /\ reader'[c].state = None /\ reader'[c].got = <<>>
                  /\ reader'[c].queue = <<>>
  <2>1. ~Subscribed(c, s) => reader'[c].queue = reader[c].queue
    BY <1>3
  <2> QED
    BY <1>3, <2>1 DEF ReadersInv, StreamsSound, Subscribed
<1> QED
  BY <1>1, <1>2, <1>4, <1>5, <1>6, <1>7
     DEF ReadersInv, DeliveryAccounted, DeliversPrefix, StreamsSound, TypeOK

\* A reader's own step keeps it accounted for.
LEMMA ReaderKeepsReaders ==
  ASSUME TypeOK, ReadersInv, NEW c \in Reader, NEW new \in ReaderState,
         reader' = [reader EXCEPT ![c] = new], UNCHANGED buffer,
         made \subseteq made', made' \subseteq State, current' \in made' \cup {None},
         new.pc \in {"replay", "live"} =>
           new.state # None /\ new.got \o new.snapshot \o new.queue = buffer[new.state],
         new.pc = "live" => new.snapshot = <<>>,
         new.pc \notin {"replay", "live", "closed"} =>
           new.state = None /\ new.got = <<>> /\ new.queue = <<>>,
         new.state # None => IsPrefix(new.got, buffer[new.state])
  PROVE  ReadersInv'
<1>1. reader' \in [Reader -> ReaderState]
  BY DEF ReadersInv
<1>2. \A d \in Reader : reader'[d] = IF d = c THEN new ELSE reader[d]
  BY DEF ReadersInv
<1>3. StreamsSound'
  BY <1>2 DEF ReadersInv, StreamsSound
<1>4. DeliveryAccounted'
  BY <1>2 DEF ReadersInv, DeliveryAccounted
<1>5. DeliversPrefix'
  BY <1>2 DEF ReadersInv, DeliversPrefix
<1> QED
  BY <1>1, <1>3, <1>4, <1>5 DEF ReadersInv

\* What publish adds to the buffers is the event, and nothing is taken away.
LEMMA PublishAddsEvent ==
  ASSUME TypeOK, NEW e \in Event, Publish(e), NEW s \in State, NEW n \in DOMAIN buffer'[s]
  PROVE  buffer'[s][n] = e \/ (n \in DOMAIN buffer[s] /\ buffer'[s][n] = buffer[s][n])
<1>1. Ensured \in State
  BY EnsuredIsState DEF Publish, Ensure
<1>2. buffer[s] \in Seq(Event)
  BY DEF TypeOK
<1>3. buffer'[s] = buffer[s] \/ buffer'[s] = Append(buffer[s], e)
  BY <1>1 DEF Publish, TypeOK
<1>4. \A q \in Seq(Event) : \A m \in DOMAIN Append(q, e) :
        Append(q, e)[m] = e \/ (m \in DOMAIN q /\ Append(q, e)[m] = q[m])
  OBVIOUS
<1> QED
  BY <1>2, <1>3, <1>4

-----------------------------------------------------------------------------
(* The streams: every action that touches a reader or a buffer.            *)

\* A reader that has not subscribed yet.
LEMMA UnsubscribedKeeps ==
  ASSUME TypeOK, ReadersInv, NEW c \in Reader,
         NEW pc \in {"reading", "opening", "gone"}, NEW seen \in RunRow,
         reader' = [reader EXCEPT ![c] = Unsubscribed(pc, seen)],
         UNCHANGED <<buffer, made>>, current' \in {current, None}
  PROVE  ReadersInv'
<1> DEFINE new == Unsubscribed(pc, seen)
<1>1. /\ new \in ReaderState /\ new.pc = pc /\ new.state = None /\ new.got = <<>>
      /\ new.queue = <<>>
  BY SequenceParts DEF Unsubscribed, Waiting, ReaderState, RunRow
<1>2. current' \in made' \cup {None} /\ made' \subseteq State
  BY DEF ReadersInv
<1> HIDE DEF new
<1> QED
  BY <1>1, <1>2, ReaderKeepsReaders DEF new

LEMMA ReadersStep ==
  ASSUME StreamInv, NEW c \in Reader,
         \/ ReaderStep(c) \/ Disconnect(c) \/ Follow(c) \/ ChatRead(c) \/ ChatRefused(c)
         \/ \E t \in Turn : ChatNew(c, t) \/ ChatFollowUp(c, t)
  PROVE  ReadersInv'
<1> DEFINE r == reader[c]
<1>1. TypeOK /\ ReadersInv
  BY DEF StreamInv, ReadersInv, TypeOK
<1>2. r \in ReaderState
  BY <1>1 DEF TypeOK
<1>3. /\ r.got \in Seq(Event) /\ r.snapshot \in Seq(Event) /\ r.queue \in Seq(Event)
      /\ r.seen \in RunRow /\ r.state \in State \cup {None}
  BY <1>2 DEF ReaderState
<1>4. r.pc \in {"replay", "live"} =>
        /\ r.state \in State
        /\ r.got \o r.snapshot \o r.queue = buffer[r.state]
        /\ IsPrefix(r.got, buffer[r.state])
  BY <1>1, <1>3 DEF ReadersInv, StreamsSound, DeliveryAccounted, DeliversPrefix
<1>5. CASE Follow(c) \/ ChatRead(c) \/ ChatRefused(c) \/ Disconnect(c)
           \/ \E t \in Turn : ChatNew(c, t) \/ ChatFollowUp(c, t)
  <2>1. \E pc \in {"reading", "opening", "gone"}, seen \in RunRow :
          reader' = [reader EXCEPT ![c] = Unsubscribed(pc, seen)]
    <3>1. status \in RunRow /\ "absent" \in RunRow
      BY <1>1 DEF TypeOK, RunRow
    <3> QED
      BY <1>5, <3>1
         DEF Follow, ChatRead, ChatRefused, Disconnect, ChatNew, ChatFollowUp, Gone
  <2>2. UNCHANGED <<buffer, made>> /\ current' \in {current, None}
    BY <1>5 DEF Follow, ChatRead, ChatRefused, Disconnect, ChatNew, ChatFollowUp
  <2> QED
    BY <1>1, <2>1, <2>2, UnsubscribedKeeps
<1>6. CASE Subscribe(c)
  <2> DEFINE new == [r EXCEPT !.pc = "replay", !.state = Ensured, !.snapshot = buffer[Ensured]]
  <2>1. Ensured \in State /\ made' = made \cup {Ensured} /\ current' = Ensured
    BY <1>1, <1>6, EnsuredIsState DEF Subscribe, Ensure
  <2>2. r.got = <<>> /\ r.queue = <<>> /\ buffer[Ensured] \in Seq(Event)
    BY <1>1, <1>6, <2>1 DEF Subscribe, ReadersInv, StreamsSound
  <2>3. /\ new \in ReaderState /\ new.pc = "replay" /\ new.state = Ensured
        /\ new.got = <<>> /\ new.snapshot = buffer[Ensured] /\ new.queue = <<>>
    BY <1>2, <2>1, <2>2 DEF ReaderState
  <2>4. /\ <<>> \o buffer[Ensured] \o <<>> = buffer[Ensured]
        /\ IsPrefix(<<>>, buffer[Ensured])
    BY <2>2, SnapshotIsWhole
  <2>5. reader' = [reader EXCEPT ![c] = new] /\ UNCHANGED buffer
    BY <1>6 DEF Subscribe
  <2>6. made \subseteq made' /\ made' \subseteq State /\ current' \in made' \cup {None}
    BY <1>1, <2>1 DEF ReadersInv
  <2>7. Ensured # None
    BY <2>1, BoundsAssumption
  <2> HIDE DEF new
  <2> QED
    BY <1>1, <2>3, <2>4, <2>5, <2>6, <2>7, ReaderKeepsReaders
<1>7. CASE Replay(c)
  <2> DEFINE e == Head(r.snapshot)
             label == IF Terminal(e) THEN "closed" ELSE "replay"
             new == [[r EXCEPT !.got = Append(r.got, e), !.pc = label]
                       EXCEPT !.snapshot = Tail(r.snapshot)]
  <2>1. r.pc = "replay" /\ r.snapshot # <<>>
    BY <1>7 DEF Replay
  <2>2. e \in Event /\ Tail(r.snapshot) \in Seq(Event) /\ Append(r.got, e) \in Seq(Event)
    BY <1>3, <2>1, SequenceParts
  <2>3. reader' = [reader EXCEPT ![c] = new]
    BY <1>7 DEF Replay, Yielded
  <2>4. /\ new \in ReaderState /\ new.pc = label /\ new.state = r.state
        /\ new.got = Append(r.got, e) /\ new.snapshot = Tail(r.snapshot)
        /\ new.queue = r.queue
    BY <1>2, <2>2 DEF ReaderState
  <2>5. new.got \o new.snapshot \o new.queue = buffer[r.state]
    <3>1. Append(r.got, Head(r.snapshot)) \o Tail(r.snapshot) \o r.queue
            = r.got \o r.snapshot \o r.queue
      BY <1>3, <2>1, DeliverSnapshot
    <3>2. r.got \o r.snapshot \o r.queue = buffer[r.state]
      BY <1>4, <2>1
    <3> QED
      BY <2>4, <3>1, <3>2
  <2>6. IsPrefix(new.got, buffer[r.state])
    BY <1>3, <2>2, <2>4, <2>5, PrefixOfWhole
  <2>7. r.state # None /\ new.pc \in {"closed", "replay"}
    BY <1>4, <2>1, <2>4, BoundsAssumption
  <2>8. UNCHANGED <<buffer, made, current>> /\ made \subseteq State /\ current \in made \cup {None}
    BY <1>1, <1>7 DEF Replay, ReadersInv
  <2> HIDE DEF new, label
  <2> QED
    BY <1>1, <2>3, <2>4, <2>5, <2>6, <2>7, <2>8, ReaderKeepsReaders
<1>8. CASE ReplayOver(c)
  <2> DEFINE label == IF Done(r.state) THEN "closed" ELSE "live"
             new == [r EXCEPT !.pc = label]
  <2>1. r.pc = "replay" /\ r.snapshot = <<>> /\ label \in {"closed", "live"}
    BY <1>8 DEF ReplayOver
  <2>2. reader' = [reader EXCEPT ![c] = new]
    BY <1>8 DEF ReplayOver
  <2> HIDE DEF label
  <2>3. /\ new \in ReaderState /\ new.pc = label /\ new.state = r.state
        /\ new.got = r.got /\ new.snapshot = <<>> /\ new.queue = r.queue
    BY <1>2, <2>1 DEF ReaderState
  <2>4. r.state # None
    BY <1>4, <2>1, BoundsAssumption
  <2>5. UNCHANGED <<buffer, made, current>> /\ made \subseteq State /\ current \in made \cup {None}
    BY <1>1, <1>8 DEF ReplayOver, ReadersInv
  <2> HIDE DEF new
  <2> QED
    BY <1>1, <1>4, <2>1, <2>2, <2>3, <2>4, <2>5, ReaderKeepsReaders
<1>9. CASE Receive(c)
  <2> DEFINE e == Head(r.queue)
             label == IF Terminal(e) THEN "closed" ELSE "live"
             new == [[r EXCEPT !.got = Append(r.got, e), !.pc = label]
                       EXCEPT !.queue = Tail(r.queue)]
  <2>1. r.pc = "live" /\ r.queue # <<>> /\ r.snapshot = <<>>
    BY <1>1, <1>9 DEF Receive, ReadersInv, StreamsSound
  <2>2. e \in Event /\ Tail(r.queue) \in Seq(Event) /\ Append(r.got, e) \in Seq(Event)
    BY <1>3, <2>1, SequenceParts
  <2>3. reader' = [reader EXCEPT ![c] = new]
    BY <1>9 DEF Receive, Yielded
  <2>4. /\ new \in ReaderState /\ new.pc = label /\ new.state = r.state
        /\ new.got = Append(r.got, e) /\ new.snapshot = <<>>
        /\ new.queue = Tail(r.queue)
    <3> DEFINE mid == [r EXCEPT !.got = Append(r.got, e), !.pc = label]
    <3>1. label \in {"closed", "live"}
      OBVIOUS
    <3>2. new = [mid EXCEPT !.queue = Tail(r.queue)]
      OBVIOUS
    <3> HIDE DEF new, label, e
    <3>3. /\ mid \in ReaderState /\ mid.pc = label /\ mid.state = r.state
          /\ mid.got = Append(r.got, e) /\ mid.snapshot = <<>>
      BY <1>2, <2>1, <2>2, <3>1 DEF ReaderState
    <3> HIDE DEF mid
    <3> QED
      BY <2>2, <3>2, <3>3 DEF ReaderState
  <2>5. new.got \o new.snapshot \o new.queue = buffer[r.state]
    <3>1. Append(r.got, Head(r.queue)) \o <<>> \o Tail(r.queue) = r.got \o <<>> \o r.queue
      BY <1>3, <2>1, DeliverQueue
    <3>2. r.got \o <<>> \o r.queue = buffer[r.state]
      BY <1>4, <2>1
    <3> QED
      BY <2>4, <3>1, <3>2
  <2>6. IsPrefix(new.got, buffer[r.state])
    <3>1. /\ new.got \in Seq(Event) /\ new.snapshot \in Seq(Event)
          /\ new.queue \in Seq(Event)
      BY <2>4 DEF ReaderState
    <3> HIDE DEF new
    <3> QED
      BY <2>5, <3>1, PrefixOfWhole
  <2>7. r.state # None /\ new.pc \in {"closed", "live"}
    BY <1>4, <2>1, <2>4, BoundsAssumption
  <2>8. UNCHANGED <<buffer, made, current>> /\ made \subseteq State /\ current \in made \cup {None}
    BY <1>1, <1>9 DEF Receive, ReadersInv
  <2> HIDE DEF new, label
  <2> QED
    BY <1>1, <2>3, <2>4, <2>5, <2>6, <2>7, <2>8, ReaderKeepsReaders
<1> QED
  BY <1>5, <1>6, <1>7, <1>8, <1>9 DEF ReaderStep

-----------------------------------------------------------------------------
(* The tasks: what the row says, and when.                                 *)

TasksInv ==
  /\ status \in RunRow
  /\ turn \in [Turn -> TurnState]
  /\ faults \in 0 .. MaxFaults
  /\ FarewellsLast /\ FirstTurnAlone /\ DoneIsRecorded

\* The two parts are the invariant.
LEMMA PartsAreInvariant == StreamInv <=> ReadersInv /\ TasksInv
  BY DEF StreamInv, ReadersInv, TasksInv, TypeOK

\* Only a `done` tells.
LEMMA PublishTells ==
  ASSUME TypeOK, NEW e \in Event, Publish(e)
  PROVE  Told' \subseteq Told \cup {e.turn} /\ (e.type # "done" => Told' \subseteq Told)
<1>1. ASSUME NEW t \in Told'
      PROVE  t \in Told \/ (e.type = "done" /\ e.turn = t)
  <2>1. PICK s \in State : \E n \in DOMAIN buffer'[s] :
               buffer'[s][n].type = "done" /\ buffer'[s][n].turn = t
    BY <1>1 DEF Told
  <2>2. PICK n \in DOMAIN buffer'[s] :
               buffer'[s][n].type = "done" /\ buffer'[s][n].turn = t
    BY <2>1
  <2>3. buffer'[s][n] = e \/ (n \in DOMAIN buffer[s] /\ buffer'[s][n] = buffer[s][n])
    BY PublishAddsEvent
  <2>4. t \in Turn
    BY <1>1 DEF Told
  <2> QED
    BY <2>2, <2>3, <2>4 DEF Told
<1> QED
  BY <1>1

\* A step of one turn that leaves the row alone.
LEMMA MoveKeepsTasks ==
  ASSUME StreamInv, NEW t \in Turn, NEW new \in TurnState,
         turn' = [turn EXCEPT ![t] = new], status' = status, faults' \in 0 .. MaxFaults,
         turn[t].pc # "over", new.pc \notin {"starting", "farewell"},
         new.pc \in {"none", "begin"} => turn[t].pc \in {"none", "begin"},
         status = "absent" =>
           /\ new.pc \notin {"announce", "work"}
           /\ turn[t].pc # "none" \/ \A u \in Turn : turn[u].pc = "none"
           /\ \A c \in Reader : reader'[c].pc # "reading",
         \/ Told' \subseteq Told
         \/ turn[t].pc = "farewell" /\ new.pc = "over" /\ Told' \subseteq Told \cup {t}
  PROVE  TasksInv'
<1>1. /\ turn \in [Turn -> TurnState] /\ status \in RunRow
      /\ FarewellsLast /\ FirstTurnAlone /\ DoneIsRecorded
  BY DEF StreamInv, TypeOK
<1>2. turn' \in [Turn -> TurnState] /\ status' \in RunRow
  BY <1>1
<1>3. \A u \in Turn : turn'[u] = IF u = t THEN new ELSE turn[u]
  BY <1>1
<1>4. \A u \in Turn : SettledFor(u) => SettledFor(u)'
  BY <1>3 DEF SettledFor
<1>5. \A u \in Turn : turn'[u].pc = "farewell" => SettledFor(u)'
  BY <1>1, <1>3, <1>4 DEF FarewellsLast
<1>6. \A u \in Told' : turn'[u].pc = "over" /\ SettledFor(u)'
  <2> TAKE u \in Told'
  <2>1. u \in Turn
    BY DEF Told
  <2>2. CASE u \in Told
    BY <1>1, <1>3, <1>4, <2>1, <2>2 DEF FarewellsLast, DoneIsRecorded
  <2>3. CASE u = t /\ turn[t].pc = "farewell" /\ new.pc = "over"
    BY <1>1, <1>3, <1>4, <2>3 DEF FarewellsLast
  <2> QED
    BY <2>2, <2>3
<1>7. FirstTurnAlone'
  BY <1>1, <1>3 DEF FirstTurnAlone
<1> QED
  BY <1>2, <1>5, <1>6, <1>7 DEF TasksInv, FarewellsLast, DoneIsRecorded

\* A step that leaves the row and the turns alone, and publishes nothing.
LEMMA ReadersKeepTasks ==
  ASSUME StreamInv, UNCHANGED <<status, turn, faults, buffer>>,
         status = "absent" => \A c \in Reader : reader'[c].pc # "reading"
  PROVE  TasksInv'
<1>1. Told' = Told /\ \A u \in Turn : SettledFor(u)' <=> SettledFor(u)
  BY DEF Told, SettledFor
<1>2. \A u \in Told : u \in Turn
  BY DEF Told
<1> QED
  BY <1>1, <1>2 DEF StreamInv, TypeOK, TasksInv, FarewellsLast, FirstTurnAlone, DoneIsRecorded

\* CreateRow, SetRunning and SetEnded, the three that write the row.
LEMMA RowStepsKeepTasks ==
  ASSUME StreamInv, NEW t \in Turn, CreateRow(t) \/ SetRunning(t) \/ SetEnded(t)
  PROVE  TasksInv'
<1>1. /\ turn \in [Turn -> TurnState] /\ status \in RunRow /\ faults \in 0 .. MaxFaults
      /\ FarewellsLast /\ FirstTurnAlone /\ DoneIsRecorded
  BY DEF StreamInv, TypeOK
<1>2. Told' = Told /\ Told \subseteq Turn /\ UNCHANGED <<reader, faults>>
  BY DEF CreateRow, SetRunning, SetEnded, Told
<1>3. CASE CreateRow(t)
  <2>1. /\ turn' \in [Turn -> TurnState] /\ status' \in RunRow /\ turn[t].pc = "begin"
        /\ \A u \in Turn : u # t => turn'[u] = turn[u]
        /\ turn'[t].pc = "starting"
        /\ status' = IF status = "absent" THEN "queued" ELSE status
    BY <1>1, <1>3 DEF CreateRow, Become, TurnState, RunRow
  <2>2. \A u \in Turn : (turn[u].pc = "over" \/ turn[u].pc = "farewell") /\ SettledFor(u)
                           => SettledFor(u)'
    <3> TAKE u \in Turn
    <3> HAVE (turn[u].pc = "over" \/ turn[u].pc = "farewell") /\ SettledFor(u)
    <3>1. status # "absent"
      BY <1>1, <2>1 DEF FirstTurnAlone
    <3> QED
      BY <2>1, <3>1 DEF SettledFor
  <2>3. FirstTurnAlone'
    BY <2>1 DEF FirstTurnAlone
  <2> QED
    BY <1>1, <1>2, <2>1, <2>2, <2>3 DEF TasksInv, FarewellsLast, DoneIsRecorded
<1>4. CASE SetRunning(t)
  <2>1. /\ turn' \in [Turn -> TurnState] /\ status' = "running" /\ "running" \in RunRow
        /\ turn[t].pc = "starting" /\ \A u \in Turn : u # t => turn'[u] = turn[u]
        /\ turn'[t].pc = "announce"
    BY <1>1, <1>4 DEF SetRunning, Become, TurnState, RunRow
  <2>2. \A u \in Turn : u # t => SettledFor(u)'
    BY <2>1 DEF SettledFor
  <2> QED
    BY <1>1, <1>2, <2>1, <2>2 DEF TasksInv, FarewellsLast, DoneIsRecorded, FirstTurnAlone
<1>5. CASE SetEnded(t)
  <2>1. /\ turn' \in [Turn -> TurnState]
        /\ status' \in {"absent", "completed", "failed"} /\ status' \in RunRow
        /\ status' = "absent" => status = "absent"
        /\ turn[t].pc = "ending" /\ \A u \in Turn : u # t => turn'[u] = turn[u]
        /\ turn'[t].pc = "farewell"
    BY <1>1, <1>5 DEF SetEnded, Become, TurnState, RunRow
  <2>2. \A u \in Turn : SettledFor(u)'
    BY <2>1 DEF SettledFor
  <2>3. FirstTurnAlone'
    BY <1>1, <1>2, <2>1 DEF FirstTurnAlone
  <2> QED
    BY <1>1, <1>2, <2>1, <2>2, <2>3 DEF TasksInv, FarewellsLast, DoneIsRecorded
<1> QED
  BY <1>3, <1>4, <1>5

\* The steps of a task that leave the row alone.
LEMMA TaskStepsKeepTasks ==
  ASSUME StreamInv, NEW t \in Turn,
         \/ Announce(t) \/ EmitToken(t) \/ Finish(t) \/ Crash(t) \/ Farewell(t)
         \/ DatabaseFails(t)
  PROVE  TasksInv'
<1>1. /\ TypeOK /\ turn[t] \in TurnState /\ status' = status /\ FirstTurnAlone
      /\ faults \in 0 .. MaxFaults /\ MaxFaults \in Nat /\ MaxTokens \in Nat
      /\ \A c \in Reader : reader[c] \in ReaderState
  BY BoundsAssumption
     DEF StreamInv, TypeOK, Announce, EmitToken, Finish, Crash, Farewell, DatabaseFails
<1>2. ASSUME NEW e \in Event, Publish(e)
      PROVE  /\ Told' \subseteq Told \cup {e.turn}
             /\ e.type # "done" => Told' \subseteq Told
             /\ \A c \in Reader : reader'[c].pc = reader[c].pc
  <2>1. \A r \in ReaderState : \A q : [r EXCEPT !.queue = q].pc = r.pc
    BY DEF ReaderState
  <2> QED
    BY <1>1, <1>2, <2>1, PublishTells DEF Publish
<1>3. status = "absent" => /\ turn[t].pc \notin {"starting", "announce", "work"}
                           /\ \A c \in Reader : reader[c].pc # "reading"
  BY <1>1 DEF FirstTurnAlone
<1>4. CASE Announce(t)
  <2> DEFINE new == [turn[t] EXCEPT !.pc = "work"]
  <2>1. new \in TurnState /\ new.pc = "work" /\ turn' = [turn EXCEPT ![t] = new]
    BY <1>1, <1>4 DEF Announce, Become, TurnState
  <2>2. /\ turn[t].pc = "announce" /\ Told' \subseteq Told /\ faults' = faults
        /\ \A c \in Reader : reader'[c].pc = reader[c].pc
    BY <1>2, <1>4, EventsAreEvents DEF Announce, Ev
  <2> HIDE DEF new
  <2> QED
    BY <1>1, <1>3, <2>1, <2>2, MoveKeepsTasks
<1>5. CASE EmitToken(t)
  <2> DEFINE new == [turn[t] EXCEPT !.tokens = turn[t].tokens + 1]
  <2>1. /\ turn[t].pc = "work" /\ turn' = [turn EXCEPT ![t] = new]
        /\ turn[t].tokens \in 0 .. MaxTokens /\ turn[t].tokens < MaxTokens /\ faults' = faults
    BY <1>1, <1>5 DEF EmitToken, TurnState
  <2>2. turn[t].tokens + 1 \in 0 .. MaxTokens
    BY <1>1, <2>1
  <2>3. new \in TurnState /\ new.pc = "work"
    BY <1>1, <2>1, <2>2 DEF TurnState
  <2>4. Told' \subseteq Told /\ \A c \in Reader : reader'[c].pc = reader[c].pc
    BY <1>2, <1>5, <2>2, EventsAreEvents DEF EmitToken, Ev
  <2> HIDE DEF new
  <2> QED
    BY <1>1, <1>3, <2>1, <2>3, <2>4, MoveKeepsTasks
<1>6. CASE Finish(t)
  <2>1. PICK new \in TurnState : turn' = [turn EXCEPT ![t] = new] /\ new.pc = "ending"
    <3>1. PICK how \in {<<"completed", "agent">>, <<"failed", "stopped">>} :
            turn' = [turn EXCEPT ![t] =
              [turn[t] EXCEPT !.pc = "ending", !.outcome = how[1], !.handler = how[2]]]
      BY <1>6 DEF Finish
    <3>2. how[1] \in {"completed", "failed"} /\ how[2] \in {"agent", "stopped"}
      OBVIOUS
    <3>3. LET new == [turn[t] EXCEPT !.pc = "ending", !.outcome = how[1], !.handler = how[2]]
          IN  new \in TurnState /\ new.pc = "ending"
      BY <1>1, <3>2 DEF TurnState
    <3> QED
      BY <3>1, <3>3
  <2>2. turn[t].pc = "work" /\ UNCHANGED <<status, buffer, reader, faults>>
    BY <1>6 DEF Finish
  <2>3. Told' = Told
    BY <2>2 DEF Told
  <2> QED
    BY <1>1, <1>3, <2>1, <2>2, <2>3, MoveKeepsTasks
<1>7. ASSUME Fail(t), turn[t].pc \notin {"none", "over"}, faults' \in 0 .. MaxFaults
      PROVE  TasksInv'
  <2> DEFINE new == [turn[t] EXCEPT !.pc = "ending", !.outcome = "failed", !.handler = "crashed"]
  <2>1. new \in TurnState /\ new.pc = "ending" /\ turn' = [turn EXCEPT ![t] = new]
    BY <1>1, <1>7 DEF Fail, TurnState
  <2>2. Told' \subseteq Told /\ \A c \in Reader : reader'[c].pc = reader[c].pc
    BY <1>2, <1>7, EventsAreEvents DEF Fail, Ev
  <2> HIDE DEF new
  <2> QED
    BY <1>1, <1>3, <1>7, <2>1, <2>2, MoveKeepsTasks
<1>8. Over \in TurnState /\ Over.pc = "over"
  BY <1>1 DEF Over, NotStarted, TurnState
<1>9. CASE Farewell(t)
  <2>1. /\ turn[t].pc = "farewell" /\ turn' = [turn EXCEPT ![t] = Over] /\ faults' = faults
        /\ Told' \subseteq Told \cup {t} /\ \A c \in Reader : reader'[c].pc = reader[c].pc
    BY <1>2, <1>9, EventsAreEvents DEF Farewell, Ev
  <2> QED
    BY <1>1, <1>3, <1>8, <2>1, MoveKeepsTasks
<1>10. CASE Crash(t)
  BY <1>1, <1>7, <1>10 DEF Crash
<1>11. CASE DatabaseFails(t)
  <2>1. faults' \in 0 .. MaxFaults
    BY <1>1, <1>11 DEF DatabaseFails
  <2>2. CASE Fail(t)
    <3>1. turn[t].pc \in {"begin", "starting", "ending"}
      BY <1>11 DEF DatabaseFails
    <3> QED
      BY <1>7, <2>1, <2>2, <3>1
  <2>3. CASE /\ turn[t].pc = "ending" /\ turn' = [turn EXCEPT ![t] = Over]
             /\ UNCHANGED <<buffer, reader>>
    <3>1. Told' = Told
      BY <2>3 DEF Told
    <3> QED
      BY <1>1, <1>3, <1>8, <2>1, <2>3, <3>1, MoveKeepsTasks
  <2> QED
    BY <1>11, <2>2, <2>3 DEF DatabaseFails
<1> QED
  BY <1>4, <1>5, <1>6, <1>9, <1>10, <1>11

\* The requests.
LEMMA RequestsKeepTasks ==
  ASSUME StreamInv, NEW c \in Reader,
         \/ ReaderStep(c) \/ Disconnect(c) \/ Follow(c) \/ ChatRead(c) \/ ChatRefused(c)
         \/ \E t \in Turn : ChatNew(c, t) \/ ChatFollowUp(c, t)
  PROVE  TasksInv'
<1>1. /\ TypeOK /\ turn \in [Turn -> TurnState] /\ FirstTurnAlone
      /\ reader \in [Reader -> ReaderState] /\ faults \in 0 .. MaxFaults
  BY DEF StreamInv, TypeOK
<1>2. UNCHANGED <<status, faults, buffer>>
  BY DEF ReaderStep, Subscribe, Replay, ReplayOver, Receive, Disconnect, Follow, ChatRead,
         ChatRefused, ChatNew, ChatFollowUp
<1>3. status = "absent" => \A d \in Reader : reader'[d].pc # "reading"
  <2>1. \A r \in ReaderState : \A label, a, b, q :
          /\ [r EXCEPT !.pc = label, !.state = a, !.snapshot = b].pc = label
          /\ [[r EXCEPT !.got = a, !.pc = label] EXCEPT !.snapshot = b].pc = label
          /\ [[r EXCEPT !.got = a, !.pc = label] EXCEPT !.queue = b].pc = label
          /\ [r EXCEPT !.pc = label].pc = label
    BY DEF ReaderState
  <2>2. \A label, a : Unsubscribed(label, a).pc = label
    BY DEF Unsubscribed, Waiting
  <2>3. status = "absent" => reader'[c].pc # "reading"
    <3> DEFINE r == reader[c]
    <3>1. CASE Subscribe(c) \/ Replay(c) \/ ReplayOver(c) \/ Receive(c)
      <4>1. CASE Subscribe(c)
        <5>1. reader'[c] = [r EXCEPT !.pc = "replay", !.state = Ensured, !.snapshot = buffer[Ensured]]
          BY <1>1, <4>1 DEF Subscribe
        <5> QED
          BY <1>1, <2>1, <5>1
      <4>2. CASE Replay(c)
        <5> DEFINE label == IF Terminal(Head(r.snapshot)) THEN "closed" ELSE "replay"
        <5>1. reader'[c] = [[r EXCEPT !.got = Append(r.got, Head(r.snapshot)), !.pc = label]
                              EXCEPT !.snapshot = Tail(r.snapshot)]
          BY <1>1, <4>2 DEF Replay, Yielded
        <5>2. label # "reading"
          OBVIOUS
        <5> HIDE DEF label
        <5> QED
          BY <1>1, <2>1, <5>1, <5>2
      <4>3. CASE ReplayOver(c)
        <5> DEFINE label == IF Done(r.state) THEN "closed" ELSE "live"
        <5>1. reader'[c] = [r EXCEPT !.pc = label]
          BY <1>1, <4>3 DEF ReplayOver
        <5>2. label # "reading"
          OBVIOUS
        <5> HIDE DEF label
        <5> QED
          BY <1>1, <2>1, <5>1, <5>2
      <4>4. CASE Receive(c)
        <5> DEFINE label == IF Terminal(Head(r.queue)) THEN "closed" ELSE "live"
        <5>1. reader'[c] = [[r EXCEPT !.got = Append(r.got, Head(r.queue)), !.pc = label]
                              EXCEPT !.queue = Tail(r.queue)]
          BY <1>1, <4>4 DEF Receive, Yielded
        <5>2. label # "reading"
          OBVIOUS
        <5> HIDE DEF label
        <5> QED
          BY <1>1, <2>1, <5>1, <5>2
      <4> QED
        BY <3>1, <4>1, <4>2, <4>3, <4>4
    <3>2. CASE ~ReaderStep(c)
      <4>1. \/ status # "absent"
            \/ \E label \in {"opening", "gone"} :
                 reader'[c] = Unsubscribed(label, "absent")
        BY <1>1, <3>2
           DEF Disconnect, Follow, ChatRead, ChatRefused, ChatNew, ChatFollowUp, Gone
      <4> QED
        BY <2>2, <4>1
    <3> QED
      BY <3>1, <3>2 DEF ReaderStep
  <2>4. \A d \in Reader : d # c => reader'[d] = reader[d]
    BY <1>1
       DEF ReaderStep, Subscribe, Replay, ReplayOver, Receive, Disconnect, Follow, ChatRead,
           ChatRefused, ChatNew, ChatFollowUp
  <2> QED
    BY <1>1, <2>3, <2>4 DEF FirstTurnAlone
<1>4. CASE ReaderStep(c) \/ Disconnect(c) \/ Follow(c) \/ ChatRead(c) \/ ChatRefused(c)
  <2>1. UNCHANGED turn
    BY <1>4 DEF ReaderStep, Subscribe, Replay, ReplayOver, Receive, Disconnect, Follow,
                ChatRead, ChatRefused
  <2> QED
    BY <1>2, <1>3, <2>1, ReadersKeepTasks
<1>5. CASE \E t \in Turn : ChatNew(c, t) \/ ChatFollowUp(c, t)
  <2> DEFINE new == [NotStarted EXCEPT !.pc = "begin"]
  <2>1. PICK t \in Turn : /\ turn[t].pc = "none" /\ turn' = [turn EXCEPT ![t] = new]
                          /\ status = "absent" => \A u \in Turn : turn[u].pc = "none"
    BY <1>1, <1>5 DEF ChatNew, ChatFollowUp, FirstTurnAlone
  <2>2. new \in TurnState /\ new.pc = "begin"
    BY BoundsAssumption DEF NotStarted, TurnState
  <2>3. Told' = Told
    BY <1>2 DEF Told
  <2> HIDE DEF new
  <2> QED
    BY <1>1, <1>2, <1>3, <2>1, <2>2, <2>3, MoveKeepsTasks
<1> QED
  BY <1>4, <1>5

-----------------------------------------------------------------------------
(* The invariant.                                                          *)

\* A step that leaves hub and readers alone.
LEMMA QuietKeepsReaders ==
  ASSUME ReadersInv, UNCHANGED <<current, made, buffer, reader>>
  PROVE  ReadersInv'
  BY DEF ReadersInv, StreamsSound, DeliveryAccounted, DeliversPrefix

LEMMA TurnsKeepReaders ==
  ASSUME StreamInv, NEW t \in Turn,
         TurnStep(t) \/ EmitToken(t) \/ Crash(t) \/ DatabaseFails(t)
  PROVE  ReadersInv'
<1>1. TypeOK /\ ReadersInv /\ turn[t] \in TurnState
  BY PartsAreInvariant DEF StreamInv, TypeOK
<1>2. CASE CreateRow(t) \/ SetRunning(t) \/ Finish(t) \/ SetEnded(t)
  BY <1>1, <1>2, QuietKeepsReaders DEF CreateRow, SetRunning, Finish, SetEnded
<1>3. CASE Announce(t) \/ Farewell(t) \/ Fail(t)
  BY <1>1, <1>3, EventsAreEvents, PublishKeepsReaders DEF Announce, Farewell, Fail
<1>4. CASE EmitToken(t)
  <2>1. turn[t].tokens + 1 \in 0 .. MaxTokens
    BY <1>1, <1>4, BoundsAssumption DEF EmitToken, TurnState
  <2> QED
    BY <1>1, <1>4, <2>1, EventsAreEvents, PublishKeepsReaders DEF EmitToken
<1>5. CASE Crash(t)
  BY <1>3, <1>5 DEF Crash
<1>6. CASE DatabaseFails(t)
  BY <1>1, <1>3, <1>6, QuietKeepsReaders DEF DatabaseFails
<1> QED
  BY <1>2, <1>3, <1>4, <1>5, <1>6 DEF TurnStep

LEMMA RestartKeepsInvariant ==
  ASSUME StreamInv, Restart
  PROVE  StreamInv'
<1>1. TypeOK /\ ReadersInv /\ TasksInv
  BY PartsAreInvariant DEF StreamInv
<1>2. /\ Gone \in ReaderState /\ Gone.pc = "gone" /\ Gone.state = None /\ Gone.got = <<>>
      /\ Gone.queue = <<>>
  BY SequenceParts DEF Gone, Unsubscribed, Waiting, ReaderState, RunRow
<1>3. \A c \in Reader : \/ reader'[c] = Gone
                        \/ reader'[c] = reader[c] /\ reader[c].pc \in {"idle", "closed"}
  BY DEF Restart
<1>4. reader' \in [Reader -> ReaderState]
  BY <1>1, <1>2 DEF Restart, ReadersInv
<1>5. ReadersInv'
  <2>1. UNCHANGED <<made, buffer>> /\ current' = None
    BY DEF Restart
  <2>2. StreamsSound'
    BY <1>1, <1>2, <1>3 DEF ReadersInv, StreamsSound
  <2>3. DeliveryAccounted'
    BY <1>2, <1>3 DEF DeliveryAccounted
  <2>4. DeliversPrefix'
    BY <1>1, <1>2, <1>3, <2>1 DEF ReadersInv, DeliversPrefix
  <2> QED
    BY <1>1, <1>4, <2>1, <2>2, <2>3, <2>4 DEF ReadersInv
<1>6. TasksInv'
  <2>1. Over \in TurnState /\ Over.pc = "over"
    BY BoundsAssumption DEF Over, NotStarted, TurnState
  <2>2. /\ turn' \in [Turn -> TurnState]
        /\ \A t \in Turn : turn'[t] = IF turn[t].pc = "none" THEN turn[t] ELSE Over
    BY <1>1, <2>1 DEF Restart, TasksInv
  <2>3. /\ status' \in RunRow
        /\ status' = "absent" <=> status = "absent"
        /\ status' \in {"queued", "running"} => status \in {"queued", "running"}
        /\ faults' \in 0 .. MaxFaults
    BY <1>1, BoundsAssumption DEF Restart, TasksInv, RunRow
  <2>4. Told' = Told /\ Told \subseteq Turn
    BY DEF Restart, Told
  <2>5. \A t \in Turn : SettledFor(t) => SettledFor(t)'
    BY <2>1, <2>2, <2>3 DEF SettledFor
  <2>6. FirstTurnAlone'
    BY <1>1, <1>2, <1>3, <2>1, <2>2, <2>3 DEF TasksInv, FirstTurnAlone
  <2>7. FarewellsLast'
    BY <1>1, <2>1, <2>2, <2>4 DEF TasksInv, FarewellsLast
  <2> QED
    BY <1>1, <2>2, <2>3, <2>4, <2>5, <2>6, <2>7 DEF TasksInv, DoneIsRecorded
<1> QED
  BY <1>5, <1>6, PartsAreInvariant, PTL

\* The hub starts empty.
LEMMA InitHolds == Init => StreamInv
<1> SUFFICES ASSUME Init PROVE StreamInv
  OBVIOUS
<1>1. /\ Waiting \in ReaderState /\ Waiting.pc = "idle" /\ Waiting.state = None
      /\ Waiting.got = <<>> /\ Waiting.queue = <<>>
  BY SequenceParts DEF Waiting, ReaderState, RunRow
<1>2. NotStarted \in TurnState /\ NotStarted.pc = "none"
  BY BoundsAssumption DEF NotStarted, TurnState
<1>3. TypeOK
  BY <1>1, <1>2, SequenceParts, BoundsAssumption DEF Init, TypeOK, RunRow
<1>4. Told = {}
  BY DEF Told, Init
<1> QED
  BY <1>1, <1>2, <1>3, <1>4
     DEF Init, StreamInv, StreamsSound, FarewellsLast, FirstTurnAlone, DeliveryAccounted,
         DeliversPrefix, DoneIsRecorded

\* Every step of the hub, the turns and the requests keeps the invariant.
LEMMA NextKeepsInvariant == StreamInv /\ [Next]_vars => StreamInv'
<1> SUFFICES ASSUME StreamInv, [Next]_vars PROVE StreamInv'
  OBVIOUS
<1>1. CASE Restart
  BY <1>1, RestartKeepsInvariant
<1>2. ASSUME NEW t \in Turn, TurnStep(t) \/ EmitToken(t) \/ Crash(t) \/ DatabaseFails(t)
      PROVE  StreamInv'
  <2>1. TasksInv'
    BY <1>2, RowStepsKeepTasks, TaskStepsKeepTasks DEF TurnStep
  <2>2. ReadersInv'
    BY <1>2, TurnsKeepReaders
  <2> QED
    BY <2>1, <2>2, PartsAreInvariant, PTL
<1>3. ASSUME NEW c \in Reader,
             \/ ReaderStep(c) \/ Disconnect(c) \/ Follow(c) \/ ChatRead(c) \/ ChatRefused(c)
             \/ \E t \in Turn : ChatNew(c, t) \/ ChatFollowUp(c, t)
      PROVE  StreamInv'
  BY <1>3, ReadersStep, RequestsKeepTasks, PartsAreInvariant, PTL
<1>4. CASE UNCHANGED vars
  <2>1. /\ UNCHANGED <<current, made, buffer, reader>>
        /\ UNCHANGED <<status, turn, faults, buffer>>
    BY <1>4 DEF vars
  <2>2. ReadersInv'
    BY <2>1, QuietKeepsReaders, PartsAreInvariant
  <2>3. TasksInv'
    BY <2>1, ReadersKeepTasks DEF StreamInv, FirstTurnAlone
  <2> QED
    BY <2>2, <2>3, PartsAreInvariant, PTL
<1> QED
  BY <1>1, <1>2, <1>3, <1>4 DEF Next

\* The inductive invariant of the hub and its turns.
THEOREM StreamInvariance == Spec => []StreamInv
  BY InitHolds, NextKeepsInvariant, PTL DEF Spec

\* The types of the run's row, states, turns and streams.
THEOREM StreamTypes == Spec => []TypeOK
<1>1. StreamInv => TypeOK
  BY DEF StreamInv
<1> QED
  BY <1>1, StreamInvariance, PTL

\* hub.py publish and subscribe: between the snapshot and the live queue no
\* event is lost, repeated or reordered, however many readers and publishers.
THEOREM DeliveryHolds == Spec => []DeliveryAccounted
<1>1. StreamInv => DeliveryAccounted
  BY DEF StreamInv
<1> QED
  BY <1>1, StreamInvariance, PTL

\* hub.py subscribe: a stream has always delivered a beginning of one buffer.
THEOREM PrefixHolds == Spec => []DeliversPrefix
<1>1. StreamInv => DeliversPrefix
  BY DEF StreamInv
<1> QED
  BY <1>1, StreamInvariance, PTL

\* context.py end: `done` is published after the row is settled, and the row
\* stays so until another turn begins.
THEOREM DoneHolds == Spec => []DoneIsRecorded
<1>1. StreamInv => DoneIsRecorded
  BY DEF StreamInv
<1> QED
  BY <1>1, StreamInvariance, PTL

=============================================================================
