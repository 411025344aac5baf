----------------------------- MODULE OAuthToken -----------------------------
(***************************************************************************)
(* The OAuth2 token cache of the REST catalog (ensureOAuthToken and do in  *)
(* internal/catalog/rest/rest.go): callers share one cached token behind   *)
(* oauthMu, which is held across the token request.  The authorization     *)
(* server is external.                                                     *)
(***************************************************************************)
EXTENDS Naturals, FiniteSets

CONSTANTS
    Callers,     \* goroutines that call the catalog
    NoCaller,    \* oauthMu is free
    Margin,      \* the 30 s before expiry at which a token is replaced
    DefaultTTL,  \* the hour assumed when expires_in is missing
    TTLs,        \* the lifetimes the server grants
    UnstatedTTLs,\* those it grants without saying so
    MaxLatency,  \* bound: from the server issuing a token to its arrival
    MaxClock,    \* bound: last instant of the run
    MaxTokens    \* bound: tokens ever issued

ASSUME OAuthAssumption ==
    /\ NoCaller \notin Callers
    /\ Margin \in Nat /\ DefaultTTL \in Nat \ {0} /\ TTLs \cup UnstatedTTLs \subseteq Nat \ {0}
    /\ MaxLatency \in Nat /\ MaxClock \in Nat /\ MaxTokens \in Nat

VARIABLES
    clock,     \* time
    mutex,     \* oauthMu
    pc,        \* each caller: "idle", "wait", "fetch", "answered" or "send"
    using,     \* each caller: the token do puts into the Authorization header
    response,  \* each caller: the token response on its way to it
    token,     \* r.oauthToken, 0 when empty
    expires,   \* r.oauthExpires
    issued     \* the tokens the server has issued: when each one really ends

tokenVars == <<clock, mutex, pc, using, response, token, expires, issued>>

Tokens == 1..MaxTokens
NoToken == 0
NoResponse == [token |-> NoToken, expiresIn |-> 0, sent |-> 0]

TokenInit ==
    /\ clock = 0
    /\ mutex = NoCaller
    /\ pc = [c \in Callers |-> "idle"]
    /\ using = [c \in Callers |-> NoToken]
    /\ response = [c \in Callers |-> NoResponse]
    /\ token = NoToken
    /\ expires = 0
    /\ issued = <<>>

-----------------------------------------------------------------------------
(* A definition preceded by a variant of its name: the variant is a slip   *)
(* that a property below would notice, and no action uses it.              *)

CachedUntilExpiry == token # NoToken /\ expires > clock
Cached == token # NoToken /\ expires > clock + Margin

Held == mutex # NoCaller
MutexAfterMissReleased(c) == NoCaller
MutexAfterMiss(c) == c

(* A catalog request begins: its caller goes for the mutex.                *)
Call(c) ==
    /\ pc[c] = "idle"
    /\ pc' = [pc EXCEPT ![c] = "wait"]
    /\ UNCHANGED <<clock, mutex, using, response, token, expires, issued>>

(* The mutex is taken and the cache answers; the deferred unlock follows.  *)
TakeCached(c) ==
    /\ pc[c] = "wait" /\ ~Held
    /\ Cached
    /\ pc' = [pc EXCEPT ![c] = "send"]
    /\ using' = [using EXCEPT ![c] = token]
    /\ UNCHANGED <<clock, mutex, response, token, expires, issued>>

(* The mutex is taken and the token request goes out under it.             *)
StartFetch(c) ==
    /\ pc[c] = "wait" /\ ~Held
    /\ ~Cached
    /\ pc' = [pc EXCEPT ![c] = "fetch"]
    /\ mutex' = MutexAfterMiss(c)
    /\ UNCHANGED <<clock, using, response, token, expires, issued>>

(* External: the server issues a token, with or without expires_in.        *)
Issue(c, ttl, stated) ==
    LET t == Cardinality(DOMAIN issued) + 1 IN
    /\ pc[c] = "fetch"
    /\ t <= MaxTokens
    /\ ttl \in IF stated THEN TTLs ELSE UnstatedTTLs
    /\ issued' = [i \in 1..t |-> IF i = t THEN clock + ttl ELSE issued[i]]
    /\ response' = [response EXCEPT ![c] =
                      [token |-> t, expiresIn |-> IF stated THEN ttl ELSE 0, sent |-> clock]]
    /\ pc' = [pc EXCEPT ![c] = "answered"]
    /\ UNCHANGED <<clock, mutex, using, token, expires>>

(* The response arrives: the lifetime is counted from now.                 *)
Lifetime(r) == IF r.expiresIn > 0 THEN r.expiresIn ELSE DefaultTTL

Store(c) ==
    /\ pc[c] = "answered"
    /\ token' = response[c].token
    /\ expires' = clock + Lifetime(response[c])
    /\ using' = [using EXCEPT ![c] = response[c].token]
    /\ response' = [response EXCEPT ![c] = NoResponse]
    /\ pc' = [pc EXCEPT ![c] = "send"]
    /\ mutex' = NoCaller
    /\ UNCHANGED <<clock, issued>>

(* The request or its answer is lost, refused or malformed: the caller     *)
(* gets the error and the cache keeps what it had.                         *)
FetchFailsLocked(c) ==
    /\ pc[c] \in {"fetch", "answered"}
    /\ pc' = [pc EXCEPT ![c] = "idle"]
    /\ response' = [response EXCEPT ![c] = NoResponse]
    /\ UNCHANGED <<clock, mutex, using, token, expires, issued>>
FetchFails(c) ==
    /\ pc[c] \in {"fetch", "answered"}
    /\ pc' = [pc EXCEPT ![c] = "idle"]
    /\ response' = [response EXCEPT ![c] = NoResponse]
    /\ mutex' = NoCaller
    /\ UNCHANGED <<clock, using, token, expires, issued>>

(* The catalog request goes out with the token.                            *)
Send(c) ==
    /\ pc[c] = "send"
    /\ pc' = [pc EXCEPT ![c] = "idle"]
    /\ using' = [using EXCEPT ![c] = NoToken]
    /\ UNCHANGED <<clock, mutex, response, token, expires, issued>>

Lock(c) == TakeCached(c) \/ StartFetch(c)
Caller(c) == Call(c) \/ Lock(c) \/ Store(c) \/ FetchFails(c) \/ Send(c)
Server(c) == \E ttl \in TTLs \cup UnstatedTTLs, stated \in BOOLEAN : Issue(c, ttl, stated)

(* Time waits for no caller but the latency bound holds, and a request     *)
(* leaves at the instant its token was handed out.                         *)
Tick ==
    /\ clock < MaxClock
    /\ \A c \in Callers :
         /\ pc[c] = "answered" => clock < response[c].sent + MaxLatency
         /\ pc[c] # "send"
    /\ clock' = clock + 1
    /\ UNCHANGED <<mutex, pc, using, response, token, expires, issued>>

TokenNext == Tick \/ \E c \in Callers : Caller(c) \/ Server(c)

(* A waiting goroutine gets the mutex in the end though others keep taking *)
(* it: Go hands it over to one that has waited for a millisecond.  The     *)
(* rest of a call goes on when it can, and the exchange with the server    *)
(* ends, in an answer or in an error; the code sets no time for it.        *)
Fairness ==
    \A c \in Callers :
        /\ SF_tokenVars(Lock(c))
        /\ WF_tokenVars(Store(c) \/ FetchFails(c) \/ Server(c)) /\ WF_tokenVars(Send(c))

TokenSpec == TokenInit /\ [][TokenNext]_tokenVars /\ Fairness

-----------------------------------------------------------------------------
(* Properties                                                              *)

(* Every variable keeps its type, and the mutex is held exactly while a    *)
(* token request is under way, however it ends.                            *)
TokenTypeOK ==
    /\ clock \in 0..MaxClock
    /\ mutex \in Callers \cup {NoCaller}
    /\ pc \in [Callers -> {"idle", "wait", "fetch", "answered", "send"}]
    /\ using \in [Callers -> 0..MaxTokens]
    /\ response \in [Callers -> [token : 0..MaxTokens, expiresIn : TTLs \cup {0},
                                 sent : 0..MaxClock]]
    /\ token \in 0..MaxTokens
    /\ expires \in Nat
    /\ DOMAIN issued \in {1..n : n \in 0..MaxTokens}
    /\ \A c \in Callers : pc[c] \in {"fetch", "answered"} <=> mutex = c

(* No request leaves with a token that has ended, although the cache       *)
(* counts a lifetime from the arrival of the token and not from its issue. *)
(* It takes a latency within the margin, lifetimes beyond the latency, as  *)
(* a token may arrive dead otherwise, and a server that grants an hour     *)
(* when it does not say how long.                                          *)
GuessIsSafe == \A ttl \in UnstatedTTLs : ttl >= DefaultTTL
LatencyCovered ==
    /\ MaxLatency <= Margin /\ GuessIsSafe
    /\ \A ttl \in TTLs \cup {DefaultTTL} : MaxLatency < ttl
SentTokenIsLive ==
    LatencyCovered => \A c \in Callers : pc[c] = "send" => clock < issued[using[c]]

(* A slow answer never displaces a later one: the cache only moves to      *)
(* newer tokens, and no caller is given one older than the cached one.     *)
NewestWins ==
    [][/\ token' >= token
       /\ \A c \in Callers : using'[c] \in {using[c], NoToken} \/ using'[c] >= token]_tokenVars

(* Every catalog request gets past the token, with one or with an error,   *)
(* whatever the others do and however requests for tokens end.             *)
CallsReturn == \A c \in Callers : pc[c] = "wait" ~> pc[c] = "idle"
=============================================================================
