------------------------------ MODULE Exporter ------------------------------
(***************************************************************************)
(* `iceberg-sentry export` (internal/cli/export.go): the main goroutine    *)
(* scans once, then serves HTTP; a second goroutine rescans at every tick; *)
(* handlers of /metrics and /healthz read what the last scan left in       *)
(* exporterState.  The tables change meanwhile.                            *)
(***************************************************************************)
EXTENDS Naturals, FiniteSets

CONSTANTS
    Tables,      \* tables the scan covers
    Clients,     \* concurrent scrapers, one request each at a time
    MaxChange,   \* bound: changes of one table
    MaxPass,     \* bound: scans told apart by their time; later ones look alike
    Unread       \* the entry of a table a scan has not read yet

ASSUME ExporterAssumption ==
    /\ MaxChange \in Nat
    /\ MaxPass \in Nat \ {0}
    /\ Unread \notin Nat
    /\ IsFiniteSet(Tables)

VARIABLES
    world,    \* world[t]: how often table t has changed
    main,     \* "start", "bind", "serve", "stop" or "exit"
    loop,     \* the ticker goroutine: "off", "wait", "scan" or "return"
    tick,     \* ticker.C, a channel of capacity one
    ctxDone,  \* ctx is cancelled
    pass,     \* the scan in progress: what it has read, and the world at its start
    passes,   \* scans completed, up to MaxPass
    state,    \* exporterState: body, ts, err, and history: the world at its start
    client    \* each scraper: its request, and the last 200 it was given

vars == <<world, main, loop, tick, ctxDone, pass, passes, state, client>>

Bodies == [Tables -> 0..MaxChange \cup {Unread}]
Worlds == [Tables -> 0..MaxChange]
NothingRead == [t \in Tables |-> Unread]
NoReply == [ok |-> FALSE, body |-> NothingRead, ts |-> 0, from |-> [t \in Tables |-> 0]]

Init ==
    /\ world = [t \in Tables |-> 0]
    /\ main = "start"
    /\ loop = "off"
    /\ tick = FALSE
    /\ ctxDone = FALSE
    /\ pass = [body |-> NothingRead, from |-> world]
    /\ passes = 0
    /\ state = [body |-> NothingRead, ts |-> 0, err |-> FALSE, from |-> world]
    /\ client = [c \in Clients |->
                   [pc |-> "idle", reply |-> NoReply, held |-> NoReply]]

-----------------------------------------------------------------------------
(* A definition preceded by a variant of its name: the variant is a slip   *)
(* that a property below would notice, and no action uses it.              *)

Running == main # "exit"
Scanning == main = "start" \/ loop = "scan"

(* The goroutine that scans goes on to its next stage.                     *)
AfterScanNoLoop == main' = (IF main = "start" THEN "bind" ELSE main) /\ loop' = loop
AfterScanReturn ==
    IF main = "start" THEN main' = "bind" /\ loop' = "wait"
                      ELSE main' = main /\ loop' = "return"
AfterScan ==
    IF main = "start" THEN main' = "bind" /\ loop' = "wait"
                      ELSE main' = main /\ loop' = "wait"

AfterFailureReturn ==
    IF main = "start" THEN main' = "bind" /\ loop' = "wait"
                      ELSE main' = main /\ loop' = "return"
AfterFailure == AfterScan

NextPass == [body |-> NothingRead, from |-> world]
Stamp == IF passes < MaxPass THEN passes + 1 ELSE MaxPass

(* eng.Scan of one table of the list.                                      *)
ReadTable(t) ==
    /\ Running /\ Scanning
    /\ pass.body[t] = Unread
    /\ pass' = [pass EXCEPT !.body[t] = world[t]]
    /\ UNCHANGED <<world, main, loop, tick, ctxDone, passes, state, client>>

(* Every table was read and rendered: state.set(body, now, nil).           *)
PassSucceeds ==
    /\ Running /\ Scanning
    /\ \A t \in Tables : pass.body[t] # Unread
    /\ state' = [body |-> pass.body, ts |-> Stamp, err |-> FALSE, from |-> pass.from]
    /\ passes' = Stamp
    /\ pass' = NextPass
    /\ AfterScan
    /\ UNCHANGED <<world, tick, ctxDone, client>>

StateAfterErrorZero ==
    [body |-> [t \in Tables |-> 0], ts |-> 0, err |-> FALSE, from |-> pass.from]
StateAfterError == [body |-> NothingRead, ts |-> Stamp, err |-> TRUE, from |-> pass.from]

(* As audit does: the table that fails is left out.                        *)
PassSkipsTable ==
    /\ Running /\ Scanning
    /\ state' = [body |-> pass.body, ts |-> Stamp, err |-> FALSE, from |-> pass.from]
    /\ passes' = Stamp
    /\ pass' = NextPass
    /\ AfterScan
    /\ UNCHANGED <<world, tick, ctxDone, client>>

(* The catalog, the storage or any one table fails, or ctx is cancelled:   *)
(* the whole scan fails, state.set(nil, now, err).                         *)
PassFails ==
    /\ Running /\ Scanning
    /\ state' = StateAfterError
    /\ passes' = Stamp
    /\ pass' = NextPass
    /\ AfterFailure
    /\ UNCHANGED <<world, tick, ctxDone, client>>

(* time.Ticker drops ticks that find the channel full.                     *)
TickerFires ==
    /\ Running
    /\ loop \in {"wait", "scan"}
    /\ tick' = TRUE
    /\ UNCHANGED <<world, main, loop, ctxDone, pass, passes, state, client>>

(* The two branches of the goroutine's select.                             *)
LoopTakesTick ==
    /\ Running
    /\ loop = "wait" /\ tick
    /\ loop' = "scan"
    /\ tick' = FALSE
    /\ pass' = NextPass
    /\ UNCHANGED <<world, main, ctxDone, passes, state, client>>

LoopReturns ==
    /\ Running
    /\ loop = "wait" /\ ctxDone
    /\ loop' = "return"
    /\ UNCHANGED <<world, main, tick, ctxDone, pass, passes, state, client>>

(* ListenAndServe binds the address, or runExport returns its error.       *)
Listen(bound) ==
    /\ main = "bind"
    /\ main' = IF bound THEN "serve" ELSE "exit"
    /\ UNCHANGED <<world, loop, tick, ctxDone, pass, passes, state, client>>

BeginShutdownAfterLoop ==
    /\ main \in {"bind", "serve"}
    /\ ctxDone /\ loop = "return"
    /\ main' = "stop"
    /\ UNCHANGED <<world, loop, tick, ctxDone, pass, passes, state, client>>
BeginShutdown ==
    /\ main \in {"bind", "serve"}
    /\ ctxDone
    /\ main' = "stop"
    /\ UNCHANGED <<world, loop, tick, ctxDone, pass, passes, state, client>>

(* ListenAndServe breaks off later, with an error of the listener.         *)
ServeFails ==
    /\ main = "serve"
    /\ main' = "exit"
    /\ UNCHANGED <<world, loop, tick, ctxDone, pass, passes, state, client>>

(* Shutdown returns when no handler is active, or after five seconds.      *)
Exit ==
    /\ main = "stop"
    /\ main' = "exit"
    /\ UNCHANGED <<world, loop, tick, ctxDone, pass, passes, state, client>>

-----------------------------------------------------------------------------
(* A scraper asks; its handler calls state.get(); it answers what it got.  *)
Ask(c) ==
    /\ main = "serve"
    /\ client[c].pc = "idle"
    /\ client' = [client EXCEPT ![c].pc = "asked"]
    /\ UNCHANGED <<world, main, loop, tick, ctxDone, pass, passes, state>>

Get(c) ==
    /\ Running
    /\ client[c].pc = "asked"
    /\ client' = [client EXCEPT
                    ![c].pc = "got",
                    ![c].held = [ok |-> ~state.err, body |-> state.body, ts |-> state.ts,
                                 from |-> state.from]]
    /\ UNCHANGED <<world, main, loop, tick, ctxDone, pass, passes, state>>

Answer(c) ==
    /\ Running
    /\ client[c].pc = "got"
    /\ client' = [client EXCEPT
                    ![c].pc = "idle",
                    ![c].reply = IF client[c].held.ok THEN client[c].held ELSE @,
                    ![c].held = NoReply]
    /\ UNCHANGED <<world, main, loop, tick, ctxDone, pass, passes, state>>

(* The environment: tables change, somebody stops the exporter.            *)
TableChanges(t) ==
    /\ world[t] < MaxChange
    /\ world' = [world EXCEPT ![t] = @ + 1]
    /\ UNCHANGED <<main, loop, tick, ctxDone, pass, passes, state, client>>

Cancel ==
    /\ ~ctxDone
    /\ ctxDone' = TRUE
    /\ UNCHANGED <<world, main, loop, tick, pass, passes, state, client>>

ScanStep == (\E t \in Tables : ReadTable(t)) \/ PassSucceeds \/ PassFails
LoopStep == LoopTakesTick \/ LoopReturns
MainStep == (\E bound \in BOOLEAN : Listen(bound)) \/ BeginShutdown \/ Exit
Handler(c) == Get(c) \/ Answer(c)

Next ==
    \/ ScanStep \/ TickerFires \/ LoopStep \/ MainStep
    \/ \E c \in Clients : Ask(c) \/ Handler(c)
    \/ \E t \in Tables : TableChanges(t)
    \/ Cancel \/ ServeFails

Spec == Init /\ [][Next]_vars

(* The goroutines run and the ticker ticks; nobody has to scrape, change a *)
(* table or stop the exporter, and the listener need not break.            *)
Fairness ==
    /\ WF_vars(ScanStep)
    /\ WF_vars(TickerFires)
    /\ WF_vars(LoopStep)
    /\ WF_vars(MainStep)
    /\ \A c \in Clients : WF_vars(Handler(c))

FairSpec == Spec /\ Fairness

-----------------------------------------------------------------------------
Replies == [ok : BOOLEAN, body : Bodies, ts : 0..MaxPass, from : Worlds]

(* Every variable keeps its type, and the two scanners exclude each other. *)
TypeOK ==
    /\ world \in Worlds
    /\ main \in {"start", "bind", "serve", "stop", "exit"}
    /\ loop \in {"off", "wait", "scan", "return"}
    /\ main = "start" <=> loop = "off"
    /\ tick \in BOOLEAN /\ ctxDone \in BOOLEAN
    /\ pass \in [body : Bodies, from : Worlds]
    /\ passes \in 0..MaxPass
    /\ state \in [body : Bodies, ts : 0..MaxPass, err : BOOLEAN, from : Worlds]
    /\ client \in [Clients -> [pc : {"idle", "asked", "got"},
                               reply : Replies, held : Replies]]

(* A 200 carries one complete scan: every table is in the body, as it was  *)
(* at some instant since that scan began, and nothing of the initial empty *)
(* state or of another scan.                                               *)
RepliesAreWholeScans ==
    \A c \in Clients : \A r \in {client[c].reply, client[c].held} :
        r.ok => \A t \in Tables : r.body[t] # Unread /\ r.body[t] >= r.from[t]

(* A scraper never sees time go backwards: a 200 never carries an older    *)
(* scan than the last 200 did, whatever failed in between.                 *)
RepliesNeverGoBack ==
    [][\A c \in Clients :
         /\ client'[c].reply.ts >= client[c].reply.ts
         /\ client[c].reply.ok => \A t \in Tables :
              client'[c].reply.body[t] >= client[c].reply.body[t]]_vars

(* A table's change reaches /metrics: it is in the body of the last scan,  *)
(* or that scan failed, or the exporter is stopping.                       *)
ChangesAreExported ==
    \A t \in Tables : \A v \in 1..MaxChange :
        (world[t] = v) ~> (state.body[t] # Unread /\ state.body[t] >= v)
                            \/ state.err \/ ctxDone \/ main = "exit"

(* A failure does not outlive the next scan: the exporter keeps scanning   *)
(* until it is stopped.                                                    *)
KeepsScanning == []<>(loop = "scan" \/ ctxDone \/ main = "exit")

(* Cancelling ctx ends the process, whatever it is doing.                  *)
CancelEnds == ctxDone ~> (main = "exit")
=============================================================================
