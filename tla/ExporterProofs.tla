--------------------------- MODULE ExporterProofs ---------------------------
(***************************************************************************)
(* What holds of the exporter for every number of tables and scrapers and  *)
(* however often the tables change.                                        *)
(***************************************************************************)
EXTENDS Exporter, TLAPS

-----------------------------------------------------------------------------
(* The invariant, part by part.                                            *)

(* Nobody is served before the first scan has ended, and a handler holds   *)
(* something only between its state.get() and its answer.                  *)
ServedAfterStart ==
    \A c \in Clients :
        /\ main \in {"start", "bind"} => client[c].pc = "idle"
        /\ main = "start" => ~client[c].reply.ok
        /\ client[c].pc # "got" => client[c].held = NoReply

(* The scan in progress reads each table after it began.                   *)
ReadsAfterBegin ==
    \A t \in Tables :
        /\ pass.from[t] <= world[t]
        /\ pass.body[t] # Unread =>
             pass.from[t] <= pass.body[t] /\ pass.body[t] <= world[t]

(* A record of one complete scan that ended before another one began.      *)
Whole(r, next) ==
    \A t \in Tables : /\ r.body[t] # Unread
                      /\ r.from[t] <= r.body[t]
                      /\ r.body[t] <= next[t]

HasScan == main # "start" /\ ~state.err

RecordsAreWhole ==
    /\ HasScan => Whole(state, pass.from)
    /\ \A c \in Clients : /\ client[c].held.ok => Whole(client[c].held, pass.from)
                          /\ client[c].reply.ok => Whole(client[c].reply, pass.from)

(* From the scraper's last 200 over what its handler holds to the state,   *)
(* records get no older.                                                   *)
NoOlder(r, s) == \A t \in Tables : r.body[t] <= s.body[t]

RecordsInOrder ==
    /\ state.ts <= passes
    /\ \A c \in Clients :
         /\ client[c].reply.ts <= state.ts /\ client[c].held.ts <= state.ts
         /\ client[c].pc = "got" => client[c].reply.ts <= client[c].held.ts
         /\ client[c].reply.ok /\ client[c].held.ok => NoOlder(client[c].reply, client[c].held)
         /\ HasScan /\ client[c].reply.ok => NoOlder(client[c].reply, state)
         /\ HasScan /\ client[c].held.ok => NoOlder(client[c].held, state)

IInv ==
    /\ TypeOK
    /\ ServedAfterStart
    /\ ReadsAfterBegin
    /\ RecordsAreWhole
    /\ RecordsInOrder

-----------------------------------------------------------------------------
(* Types.                                                                  *)
LEMMA Blank ==
    /\ NothingRead \in Bodies
    /\ NoReply \in Replies
    /\ \A t \in Tables : NothingRead[t] = Unread
    /\ ~NoReply.ok /\ NoReply.ts = 0
  BY ExporterAssumption DEF NothingRead, NoReply, Bodies, Worlds, Replies

LEMMA InitTypeOK == Init => TypeOK
  <1> SUFFICES ASSUME Init
               PROVE  TypeOK
    OBVIOUS
  <1>1. world \in Worlds /\ NothingRead \in Bodies /\ NoReply \in Replies
    BY Blank, ExporterAssumption DEF Init, Worlds
  <1>2. 0 \in 0..MaxPass
    BY ExporterAssumption
  <1>3. state \in [body : Bodies, ts : 0..MaxPass, err : BOOLEAN, from : Worlds]
    BY <1>1, <1>2 DEF Init
  <1>4. client \in [Clients -> [pc : {"idle", "asked", "got"},
                               reply : Replies, held : Replies]]
    BY <1>1 DEF Init
  <1>5. QED
    BY <1>1, <1>2, <1>3, <1>4 DEF Init, TypeOK

LEMMA StampType ==
    ASSUME passes \in 0..MaxPass
    PROVE  Stamp \in 0..MaxPass /\ passes <= Stamp
  BY ExporterAssumption DEF Stamp

(* The end of a scan, whichever way it ended.                              *)
LEMMA AfterScanTypes ==
    ASSUME TypeOK, Scanning, AfterScan
    PROVE  /\ main' \in {"start", "bind", "serve", "stop", "exit"}
           /\ main' # "start" /\ loop' = "wait"
           /\ main # "start" => main' = main
  BY DEF AfterScan, Scanning, TypeOK

LEMMA NextTypeOK == TypeOK /\ [Next]_vars => TypeOK'
  <1> SUFFICES ASSUME TypeOK, [Next]_vars
               PROVE  TypeOK'
    OBVIOUS
  <1> USE DEF TypeOK
  <1>1. ASSUME NEW t \in Tables, ReadTable(t)
        PROVE  TypeOK'
    <2>1. pass' \in [body : Bodies, from : Worlds]
      BY <1>1 DEF ReadTable, Bodies, Worlds
    <2>2. QED
      BY <1>1, <2>1 DEF ReadTable
  <1>2. CASE PassSucceeds
    <2>1. /\ pass' \in [body : Bodies, from : Worlds]
          /\ passes' \in 0..MaxPass
          /\ state' \in [body : Bodies, ts : 0..MaxPass, err : BOOLEAN, from : Worlds]
      BY <1>2, Blank, StampType DEF PassSucceeds, NextPass
    <2>2. Scanning /\ AfterScan
      BY <1>2 DEF PassSucceeds
    <2>3. QED
      BY <1>2, <2>1, <2>2, AfterScanTypes DEF PassSucceeds
  <1>3. CASE PassFails
    <2>1. /\ pass' \in [body : Bodies, from : Worlds]
          /\ passes' \in 0..MaxPass
          /\ state' \in [body : Bodies, ts : 0..MaxPass, err : BOOLEAN, from : Worlds]
      BY <1>3, Blank, StampType DEF PassFails, NextPass, StateAfterError
    <2>2. Scanning /\ AfterScan
      BY <1>3 DEF PassFails, AfterFailure
    <2>3. QED
      BY <1>3, <2>1, <2>2, AfterScanTypes DEF PassFails
  <1>4. CASE TickerFires
    BY <1>4 DEF TickerFires
  <1>5. CASE LoopTakesTick
    BY <1>5, Blank DEF LoopTakesTick, NextPass
  <1>6. CASE LoopReturns
    BY <1>6 DEF LoopReturns
  <1>7. ASSUME NEW bound \in BOOLEAN, Listen(bound)
        PROVE  TypeOK'
    BY <1>7 DEF Listen
  <1>8. CASE BeginShutdown
    BY <1>8 DEF BeginShutdown
  <1>9. CASE Exit
    BY <1>9 DEF Exit
  <1>10. ASSUME NEW c \in Clients, Ask(c)
         PROVE  TypeOK'
    BY <1>10 DEF Ask
  <1>11. ASSUME NEW c \in Clients, Get(c)
         PROVE  TypeOK'
    <2>1. [ok |-> ~state.err, body |-> state.body, ts |-> state.ts, from |-> state.from]
            \in Replies
      BY DEF Replies
    <2>2. QED
      BY <1>11, <2>1 DEF Get
  <1>12. ASSUME NEW c \in Clients, Answer(c)
         PROVE  TypeOK'
    <2> DEFINE given == IF client[c].held.ok THEN client[c].held ELSE client[c].reply
    <2>1. given \in Replies /\ NoReply \in Replies
      BY Blank
    <2>2. client' = [client EXCEPT ![c].pc = "idle", ![c].reply = given, ![c].held = NoReply]
      BY <1>12 DEF Answer
    <2> HIDE DEF given
    <2>3. client' \in [Clients -> [pc : {"idle", "asked", "got"},
                                  reply : Replies, held : Replies]]
      BY <2>1, <2>2
    <2>4. QED
      BY <1>12, <2>3 DEF Answer
  <1>13. ASSUME NEW t \in Tables, TableChanges(t)
         PROVE  TypeOK'
    <2>1. world' \in Worlds
      BY <1>13, ExporterAssumption DEF TableChanges, Worlds
    <2>2. QED
      BY <1>13, <2>1 DEF TableChanges
  <1>14. CASE Cancel
    BY <1>14 DEF Cancel
  <1>15. CASE ServeFails
    BY <1>15 DEF ServeFails
  <1>16. CASE UNCHANGED vars
    BY <1>16 DEF vars
  <1>17. QED
    BY <1>1, <1>2, <1>3, <1>4, <1>5, <1>6, <1>7, <1>8, <1>9, <1>10, <1>11, <1>12, <1>13,
       <1>14, <1>15, <1>16 DEF Next, ScanStep, LoopStep, MainStep, Handler

(* Every variable keeps its type, and the two scanners exclude each other. *)
THEOREM TypeCorrect == Spec => []TypeOK
  BY InitTypeOK, NextTypeOK, PTL DEF Spec

-----------------------------------------------------------------------------
LEMMA InitIInv == Init => IInv
  <1> SUFFICES ASSUME Init
               PROVE  IInv
    OBVIOUS
  <1>1. TypeOK
    BY InitTypeOK
  <1>2. \A c \in Clients : client[c].pc = "idle" /\ client[c].reply = NoReply
                             /\ client[c].held = NoReply
    BY DEF Init
  <1>3. ServedAfterStart
    BY <1>2, Blank DEF ServedAfterStart
  <1>4. ReadsAfterBegin
    BY Blank DEF Init, ReadsAfterBegin
  <1>5. ~HasScan
    BY DEF Init, HasScan
  <1>6. RecordsAreWhole
    BY <1>2, <1>5, Blank DEF RecordsAreWhole
  <1>7. RecordsInOrder
    BY <1>2, <1>5, Blank DEF Init, RecordsInOrder
  <1>8. QED
    BY <1>1, <1>3, <1>4, <1>6, <1>7 DEF IInv

(* What is counted are naturals.                                           *)
LEMMA CountTypes ==
    ASSUME TypeOK, NEW t \in Tables
    PROVE  /\ world[t] \in Nat /\ pass.from[t] \in Nat
           /\ pass.body[t] # Unread => pass.body[t] \in Nat
           /\ state.body[t] # Unread => state.body[t] \in Nat
           /\ state.from[t] \in Nat /\ state.ts \in Nat /\ passes \in Nat
           /\ \A c \in Clients : \A r \in {client[c].reply, client[c].held} :
                /\ r.body[t] # Unread => r.body[t] \in Nat
                /\ r.from[t] \in Nat
  <1>1. /\ world \in Worlds /\ pass \in [body : Bodies, from : Worlds]
        /\ state \in [body : Bodies, ts : 0..MaxPass, err : BOOLEAN, from : Worlds]
        /\ \A c \in Clients : client[c].reply \in Replies /\ client[c].held \in Replies
        /\ passes \in 0..MaxPass
    BY DEF TypeOK
  <1>2. \A b \in Bodies : b[t] # Unread => b[t] \in Nat
    BY ExporterAssumption DEF Bodies
  <1>3. \A w \in Worlds : w[t] \in Nat
    BY ExporterAssumption DEF Worlds
  <1>4. \A r \in Replies : r.body \in Bodies /\ r.from \in Worlds
    BY DEF Replies
  <1>5. 0..MaxPass \subseteq Nat
    OBVIOUS
  <1>6. QED
    BY <1>1, <1>2, <1>3, <1>4, <1>5

LEMMA TimeTypes ==
    ASSUME TypeOK
    PROVE  /\ state.ts \in Nat /\ passes \in Nat
           /\ \A c \in Clients : client[c].reply.ts \in Nat /\ client[c].held.ts \in Nat
  <1>1. \A c \in Clients : client[c].reply \in Replies /\ client[c].held \in Replies
    BY DEF TypeOK
  <1>2. QED
    BY <1>1 DEF TypeOK, Replies

(* Steps that touch neither the tables, nor a scan, nor a handler.         *)
LEMMA QuietInv ==
    ASSUME IInv, TypeOK', UNCHANGED <<world, pass, passes, state, client>>,
           main' = main \/ (main # "start" /\ main' \notin {"start", "bind"})
    PROVE  IInv'
  <1>1. ServedAfterStart' /\ HasScan' = HasScan
    BY DEF IInv, ServedAfterStart, HasScan
  <1>2. ReadsAfterBegin' /\ RecordsAreWhole' /\ RecordsInOrder'
    BY <1>1 DEF IInv, ReadsAfterBegin, RecordsAreWhole, RecordsInOrder
  <1>3. QED
    BY <1>1, <1>2 DEF IInv

LEMMA TableChangesInv ==
    ASSUME IInv, TypeOK', NEW t \in Tables, TableChanges(t)
    PROVE  IInv'
  <1>1. UNCHANGED <<main, loop, tick, ctxDone, pass, passes, state, client>>
    BY DEF TableChanges
  <1>2. \A u \in Tables : world[u] <= world'[u]
    BY CountTypes DEF IInv, TypeOK, TableChanges, Worlds
  <1>3. ReadsAfterBegin'
    <2> SUFFICES ASSUME NEW u \in Tables
                 PROVE  /\ pass.from[u] <= world'[u]
                        /\ pass.body[u] # Unread =>
                             pass.from[u] <= pass.body[u] /\ pass.body[u] <= world'[u]
      BY <1>1 DEF ReadsAfterBegin
    <2>1. /\ world[u] \in Nat /\ pass.from[u] \in Nat /\ world'[u] \in Nat
          /\ pass.body[u] # Unread => pass.body[u] \in Nat
      BY CountTypes, ExporterAssumption DEF IInv, TypeOK, Worlds
    <2>2. QED
      BY <1>2, <2>1 DEF IInv, ReadsAfterBegin
  <1>4. ServedAfterStart' /\ HasScan' = HasScan
    BY <1>1 DEF IInv, ServedAfterStart, HasScan
  <1>5. RecordsAreWhole' /\ RecordsInOrder'
    BY <1>1, <1>4 DEF IInv, RecordsAreWhole, RecordsInOrder
  <1>6. QED
    BY <1>3, <1>4, <1>5 DEF IInv

LEMMA ReadTableInv ==
    ASSUME IInv, TypeOK', NEW t \in Tables, ReadTable(t)
    PROVE  IInv'
  <1>1. /\ UNCHANGED <<world, main, loop, tick, ctxDone, passes, state, client>>
        /\ pass'.from = pass.from
        /\ pass'.body[t] = world[t]
        /\ \A u \in Tables : u # t => pass'.body[u] = pass.body[u]
    BY DEF ReadTable, IInv, TypeOK, Bodies
  <1>2. ReadsAfterBegin'
    <2>1. world[t] <= world[t]
      BY CountTypes DEF IInv
    <2>2. QED
      BY <1>1, <2>1 DEF IInv, ReadsAfterBegin
  <1>3. ServedAfterStart' /\ HasScan' = HasScan
    BY <1>1 DEF IInv, ServedAfterStart, HasScan
  <1>4. RecordsAreWhole' /\ RecordsInOrder'
    BY <1>1, <1>3 DEF IInv, RecordsAreWhole, RecordsInOrder
  <1>5. QED
    BY <1>2, <1>3, <1>4 DEF IInv

(* A new scan begins: what was whole before stays so.                      *)
LEMMA WholeBeforeNext ==
    ASSUME IInv, pass' = NextPass
    PROVE  /\ ReadsAfterBegin' \/ world' # world
           /\ HasScan => Whole(state, pass'.from)
           /\ \A c \in Clients :
                /\ client[c].held.ok => Whole(client[c].held, pass'.from)
                /\ client[c].reply.ok => Whole(client[c].reply, pass'.from)
  <1>1. pass'.from = world /\ \A t \in Tables : pass'.body[t] = Unread
    BY Blank DEF NextPass
  <1>2. \A t \in Tables : pass.from[t] <= world[t]
    BY DEF IInv, ReadsAfterBegin
  <1>3. ReadsAfterBegin' \/ world' # world
    BY <1>1, CountTypes DEF ReadsAfterBegin, IInv
  <1>4. HasScan => Whole(state, pass'.from)
    BY <1>1, <1>2, CountTypes DEF IInv, RecordsAreWhole, Whole
  <1>5. ASSUME NEW c \in Clients, NEW r \in {client[c].reply, client[c].held}, r.ok
        PROVE  Whole(r, pass'.from)
    <2> SUFFICES ASSUME NEW t \in Tables
                 PROVE  /\ r.body[t] # Unread
                        /\ r.from[t] <= r.body[t]
                        /\ r.body[t] <= pass'.from[t]
      BY DEF Whole
    <2>1. /\ r.body[t] # Unread
          /\ r.from[t] <= r.body[t]
          /\ r.body[t] <= pass.from[t]
      BY <1>5 DEF IInv, RecordsAreWhole, Whole
    <2>2. r.body[t] \in Nat /\ pass.from[t] \in Nat /\ world[t] \in Nat
      BY <2>1, CountTypes DEF IInv
    <2>3. QED
      BY <1>1, <1>2, <2>1, <2>2
  <1>6. QED
    BY <1>3, <1>4, <1>5

LEMMA LoopTakesTickInv ==
    ASSUME IInv, TypeOK', LoopTakesTick
    PROVE  IInv'
  <1>1. pass' = NextPass /\ UNCHANGED <<world, main, ctxDone, passes, state, client>>
    BY DEF LoopTakesTick
  <1>2. ServedAfterStart' /\ HasScan' = HasScan
    BY <1>1 DEF IInv, ServedAfterStart, HasScan
  <1>3. ReadsAfterBegin'
    BY <1>1, WholeBeforeNext
  <1>4. RecordsAreWhole'
    BY <1>1, <1>2, WholeBeforeNext DEF RecordsAreWhole
  <1>5. RecordsInOrder'
    BY <1>1, <1>2 DEF IInv, RecordsInOrder
  <1>6. QED
    BY <1>2, <1>3, <1>4, <1>5 DEF IInv

LEMMA AfterScanServed ==
    ASSUME IInv, Scanning, AfterScan, client' = client
    PROVE  ServedAfterStart' /\ main' # "start"
  <1>1. TypeOK
    BY DEF IInv
  <1>2. /\ main' # "start"
        /\ main # "start" => main' = main
    BY <1>1, AfterScanTypes
  <1>3. QED
    BY <1>2 DEF IInv, ServedAfterStart

(* A scan ended well: its record is whole, and nothing given out is newer. *)
LEMMA PassSucceedsInv ==
    ASSUME IInv, TypeOK', PassSucceeds
    PROVE  IInv'
  <1>1. /\ Scanning /\ AfterScan /\ pass' = NextPass /\ passes' = Stamp
        /\ \A t \in Tables : pass.body[t] # Unread
        /\ state'.body = pass.body /\ state'.ts = Stamp /\ ~state'.err
        /\ state'.from = pass.from
        /\ UNCHANGED <<world, tick, ctxDone, client>>
    BY DEF PassSucceeds
  <1>2. ServedAfterStart' /\ main' # "start"
    BY <1>1, AfterScanServed
  <1>3. ReadsAfterBegin'
    BY <1>1, WholeBeforeNext
  <1>4. Whole(state', pass'.from)
    BY <1>1, CountTypes DEF Whole, NextPass, IInv, ReadsAfterBegin
  <1>5. RecordsAreWhole'
    BY <1>1, <1>4, WholeBeforeNext DEF RecordsAreWhole
  <1>6. ASSUME NEW c \in Clients, NEW r \in {client[c].reply, client[c].held}, r.ok
        PROVE  NoOlder(r, state')
    <2> SUFFICES ASSUME NEW t \in Tables
                 PROVE  r.body[t] <= pass.body[t]
      BY <1>1 DEF NoOlder
    <2>1. r.body[t] # Unread /\ r.body[t] <= pass.from[t]
      BY <1>6 DEF IInv, RecordsAreWhole, Whole
    <2>2. pass.from[t] <= pass.body[t]
      BY <1>1 DEF IInv, ReadsAfterBegin
    <2>3. r.body[t] \in Nat /\ pass.from[t] \in Nat /\ pass.body[t] \in Nat
      BY <1>1, <2>1, CountTypes DEF IInv
    <2>4. QED
      BY <2>1, <2>2, <2>3
  <1>7. RecordsInOrder'
    <2>1. Stamp \in Nat /\ passes <= Stamp
      BY StampType, ExporterAssumption DEF IInv, TypeOK
    <2>2. \A c \in Clients : client[c].reply.ts <= Stamp /\ client[c].held.ts <= Stamp
      BY <2>1, TimeTypes DEF IInv, RecordsInOrder
    <2>3. QED
      BY <1>1, <1>6, <2>1, <2>2 DEF IInv, RecordsInOrder
  <1>8. QED
    BY <1>2, <1>3, <1>5, <1>7 DEF IInv

LEMMA PassFailsInv ==
    ASSUME IInv, TypeOK', PassFails
    PROVE  IInv'
  <1>1. /\ Scanning /\ AfterScan /\ pass' = NextPass /\ passes' = Stamp
        /\ state'.ts = Stamp /\ state'.err
        /\ UNCHANGED <<world, tick, ctxDone, client>>
    BY DEF PassFails, AfterFailure, StateAfterError
  <1>2. ServedAfterStart' /\ ~HasScan'
    BY <1>1, AfterScanServed DEF HasScan
  <1>3. ReadsAfterBegin'
    BY <1>1, WholeBeforeNext
  <1>4. RecordsAreWhole'
    BY <1>1, <1>2, WholeBeforeNext DEF RecordsAreWhole
  <1>5. RecordsInOrder'
    <2>1. Stamp \in Nat /\ passes <= Stamp
      BY StampType, ExporterAssumption DEF IInv, TypeOK
    <2>2. \A c \in Clients : client[c].reply.ts <= Stamp /\ client[c].held.ts <= Stamp
      BY <2>1, TimeTypes DEF IInv, RecordsInOrder
    <2>3. QED
      BY <1>1, <1>2, <2>1, <2>2 DEF IInv, RecordsInOrder
  <1>6. QED
    BY <1>2, <1>3, <1>4, <1>5 DEF IInv

LEMMA AskInv ==
    ASSUME IInv, TypeOK', NEW c \in Clients, Ask(c)
    PROVE  IInv'
  <1>1. /\ UNCHANGED <<world, main, loop, tick, ctxDone, pass, passes, state>>
        /\ main = "serve" /\ client[c].pc = "idle" /\ client'[c].pc = "asked"
        /\ \A d \in Clients : /\ client'[d].reply = client[d].reply
                              /\ client'[d].held = client[d].held
                              /\ d # c => client'[d].pc = client[d].pc
    BY DEF Ask, IInv, TypeOK
  <1>2. ServedAfterStart' /\ HasScan' = HasScan
    BY <1>1 DEF IInv, ServedAfterStart, HasScan
  <1>3. ReadsAfterBegin'
    BY <1>1 DEF IInv, ReadsAfterBegin
  <1>4. RecordsAreWhole'
    BY <1>1, <1>2 DEF IInv, RecordsAreWhole
  <1>5. RecordsInOrder'
    BY <1>1, <1>2 DEF IInv, RecordsInOrder
  <1>6. QED
    BY <1>2, <1>3, <1>4, <1>5 DEF IInv

LEMMA GetInv ==
    ASSUME IInv, TypeOK', NEW c \in Clients, Get(c)
    PROVE  IInv'
  <1> DEFINE got == [ok |-> ~state.err, body |-> state.body, ts |-> state.ts,
                     from |-> state.from]
  <1>1. /\ UNCHANGED <<world, main, loop, tick, ctxDone, pass, passes, state>>
        /\ client[c].pc = "asked" /\ client'[c].pc = "got"
        /\ client'[c].held = got /\ client'[c].reply = client[c].reply
        /\ \A d \in Clients : d # c => client'[d] = client[d]
    BY DEF Get, IInv, TypeOK
  <1>2. main # "start" /\ ServedAfterStart' /\ HasScan' = HasScan
    BY <1>1 DEF IInv, ServedAfterStart, HasScan
  <1>3. ReadsAfterBegin'
    BY <1>1 DEF IInv, ReadsAfterBegin
  <1>4. got.ok => /\ HasScan /\ Whole(got, pass.from)
                  /\ NoOlder(got, state)
                  /\ client[c].reply.ok => NoOlder(client[c].reply, got)
    <2> SUFFICES ASSUME ~state.err
                 PROVE  /\ HasScan /\ Whole(got, pass.from)
                        /\ NoOlder(got, state)
                        /\ client[c].reply.ok => NoOlder(client[c].reply, got)
      OBVIOUS
    <2>1. HasScan
      BY <1>2 DEF HasScan
    <2>2. Whole(state, pass.from)
      BY <2>1 DEF IInv, RecordsAreWhole
    <2>3. Whole(got, pass.from)
      BY <2>2 DEF Whole
    <2>4. NoOlder(got, state)
      BY <2>2, CountTypes DEF NoOlder, Whole, IInv
    <2>5. client[c].reply.ok => NoOlder(client[c].reply, got)
      BY <2>1 DEF IInv, RecordsInOrder, NoOlder
    <2>6. QED
      BY <2>1, <2>3, <2>4, <2>5
  <1>5. RecordsAreWhole'
    BY <1>1, <1>2, <1>4 DEF IInv, RecordsAreWhole
  <1>6. RecordsInOrder'
    <2>1. got.ts <= state.ts /\ client[c].reply.ts <= got.ts
      BY TimeTypes DEF IInv, RecordsInOrder
    <2>2. QED
      BY <1>1, <1>2, <1>4, <2>1 DEF IInv, RecordsInOrder
  <1>7. QED
    BY <1>2, <1>3, <1>5, <1>6 DEF IInv

(* The answer replaces the last 200 or leaves it.                          *)
LEMMA AnswerInv ==
    ASSUME IInv, TypeOK', NEW c \in Clients, Answer(c)
    PROVE  IInv'
  <1> DEFINE given == IF client[c].held.ok THEN client[c].held ELSE client[c].reply
  <1>1. /\ UNCHANGED <<world, main, loop, tick, ctxDone, pass, passes, state>>
        /\ main # "exit" /\ client[c].pc = "got" /\ client'[c].pc = "idle"
        /\ client'[c].held = NoReply /\ client'[c].reply = given
        /\ \A d \in Clients : d # c => client'[d] = client[d]
    BY DEF Answer, Running, IInv, TypeOK
  <1>2. ServedAfterStart' /\ HasScan' = HasScan
    BY <1>1 DEF IInv, ServedAfterStart, HasScan
  <1>3. ReadsAfterBegin'
    BY <1>1 DEF IInv, ReadsAfterBegin
  <1>4. RecordsAreWhole'
    BY <1>1, <1>2, Blank DEF IInv, RecordsAreWhole
  <1>5. RecordsInOrder'
    <2>1. /\ given.ts <= state.ts /\ NoReply.ts <= state.ts
          /\ HasScan /\ given.ok => NoOlder(given, state)
      BY Blank, TimeTypes DEF IInv, RecordsInOrder
    <2>2. QED
      BY <1>1, <1>2, <2>1, Blank DEF IInv, RecordsInOrder
  <1>6. QED
    BY <1>2, <1>3, <1>4, <1>5 DEF IInv

LEMMA NextIInv == IInv /\ [Next]_vars => IInv'
  <1> SUFFICES ASSUME IInv, [Next]_vars
               PROVE  IInv'
    OBVIOUS
  <1>1. TypeOK'
    BY NextTypeOK DEF IInv
  <1>2. CASE TickerFires \/ LoopReturns \/ Cancel \/ UNCHANGED vars
    BY <1>1, <1>2, QuietInv DEF TickerFires, LoopReturns, Cancel, vars
  <1>3. CASE MainStep \/ ServeFails
    BY <1>1, <1>3, QuietInv DEF MainStep, Listen, BeginShutdown, Exit, ServeFails
  <1>4. CASE ScanStep
    BY <1>1, <1>4, ReadTableInv, PassSucceedsInv, PassFailsInv DEF ScanStep
  <1>5. CASE LoopTakesTick
    BY <1>1, <1>5, LoopTakesTickInv
  <1>6. ASSUME NEW c \in Clients, Ask(c) \/ Handler(c)
        PROVE  IInv'
    BY <1>1, <1>6, AskInv, GetInv, AnswerInv DEF Handler
  <1>7. ASSUME NEW t \in Tables, TableChanges(t)
        PROVE  IInv'
    BY <1>1, <1>7, TableChangesInv
  <1>8. QED
    BY <1>2, <1>3, <1>4, <1>5, <1>6, <1>7 DEF Next, LoopStep

(* The invariant is inductive: every step of the scanner, of main, of a    *)
(* handler, of a scraper and of the tables keeps it.                       *)
THEOREM Inductive == Spec => []IInv
  BY InitIInv, NextIInv, PTL DEF Spec

(* A 200 carries one complete scan, each table as it was since that scan   *)
(* began.                                                                  *)
THEOREM TwoHundredIsOneScan == Spec => []RepliesAreWholeScans
  <1>1. IInv => RepliesAreWholeScans
    <2> SUFFICES ASSUME IInv, NEW c \in Clients,
                        NEW r \in {client[c].reply, client[c].held}, r.ok,
                        NEW t \in Tables
                 PROVE  r.body[t] # Unread /\ r.body[t] >= r.from[t]
      BY DEF RepliesAreWholeScans
    <2>1. r.body[t] # Unread /\ r.from[t] <= r.body[t]
      BY DEF IInv, RecordsAreWhole, Whole
    <2>2. r.body[t] \in Nat /\ r.from[t] \in Nat
      BY <2>1, CountTypes DEF IInv
    <2>3. QED
      BY <2>1, <2>2
  <1>2. QED
    BY <1>1, Inductive, PTL

(* What a scraper was given never goes back, whatever failed in between.   *)
THEOREM ScrapersSeeTimeAdvance == Spec => RepliesNeverGoBack
  <1>1. ASSUME IInv, [Next]_vars, NEW c \in Clients
        PROVE  /\ client'[c].reply.ts >= client[c].reply.ts
               /\ client[c].reply.ok => \A t \in Tables :
                    client'[c].reply.body[t] >= client[c].reply.body[t]
    <2>1. /\ client[c].reply.ts \in Nat /\ client[c].held.ts \in Nat
          /\ client[c].reply.ok => \A t \in Tables : client[c].reply.body[t] \in Nat
          /\ client[c].held.ok => \A t \in Tables : client[c].held.body[t] \in Nat
      BY <1>1, TimeTypes, CountTypes DEF IInv, RecordsAreWhole, Whole
    <2>2. CASE client'[c].reply = client[c].reply
      BY <2>1, <2>2
    <2>3. CASE Answer(c)
      <3>1. client[c].pc = "got"
              /\ client'[c].reply = IF client[c].held.ok THEN client[c].held ELSE client[c].reply
        BY <1>1, <2>3 DEF Answer, IInv, TypeOK
      <3>2. CASE ~client[c].held.ok
        BY <2>2, <3>1, <3>2
      <3>3. CASE client[c].held.ok
        <4>1. client'[c].reply = client[c].held
          BY <3>1, <3>3
        <4>2. client[c].reply.ts <= client[c].held.ts
          BY <1>1, <3>1 DEF IInv, RecordsInOrder
        <4>3. client[c].reply.ok => NoOlder(client[c].reply, client[c].held)
          BY <1>1, <3>3 DEF IInv, RecordsInOrder
        <4>4. QED
          BY <2>1, <3>3, <4>1, <4>2, <4>3 DEF NoOlder
      <3>4. QED
        BY <3>2, <3>3
    <2>4. ASSUME NEW d \in Clients, Ask(d) \/ Get(d) \/ Answer(d), ~Answer(c)
          PROVE  client'[c].reply = client[c].reply
      BY <1>1, <2>4 DEF Ask, Get, Answer, IInv, TypeOK
    <2>5. CASE client' = client
      BY <2>2, <2>5
    <2>6. client' = client \/ \E d \in Clients : Ask(d) \/ Get(d) \/ Answer(d)
      BY <1>1 DEF Next, ScanStep, ReadTable, PassSucceeds, PassFails, TickerFires, LoopStep,
         LoopTakesTick, LoopReturns, MainStep, Listen, BeginShutdown, Exit, Handler,
         TableChanges, Cancel, ServeFails, vars
    <2>7. QED
      BY <2>2, <2>3, <2>4, <2>5, <2>6
  <1>2. IInv /\ [Next]_vars =>
          [\A c \in Clients :
             /\ client'[c].reply.ts >= client[c].reply.ts
             /\ client[c].reply.ok => \A t \in Tables :
                  client'[c].reply.body[t] >= client[c].reply.body[t]]_vars
    BY <1>1
  <1>3. QED
    BY <1>2, Inductive, PTL DEF Spec, RepliesNeverGoBack

=============================================================================
