--------------------------- MODULE BrokerRequest ---------------------------
(***************************************************************************)
(* Requests of the worker, the API and the background jobs to MetaApi,     *)
(* with their retries, and the circuit breaker that they share in Redis.   *)
(* Every client has one adapter, whose breaker key is the name of its      *)
(* account, or its id if it was built without a name.                      *)
(* Source: adapters/execution/meta_api_adapter.py, core/circuit_breaker.py.*)
(***************************************************************************)
EXTENDS Integers

CONSTANTS
  Clients,
  AccountOf,      \* the account a client's adapter is for
  NameOf,         \* the account_name its adapter was built with, or ""
  Asking,         \* clients whose operation asks the breaker first
  MaxRetries,     \* MAX_RETRIES, 4 in the code
  MaxDisconnect,  \* MAX_RETRIES_BROKER_DISCONNECT, 2 in the code
  Faults

FaultKinds == {"timeout",       \* no answer in time, or no connection
               "limited",       \* 429
               "disconnected",  \* 504: the terminal is not connected
               "server",        \* another 5xx
               "redis"}         \* Redis does not answer

ASSUME RequestAssumption ==
  /\ Asking \subseteq Clients
  /\ {MaxRetries, MaxDisconnect} \subseteq Nat
  /\ Faults \subseteq FaultKinds

Global == "global"

\* _circuit_breaker_account_key, under the prefix of all keys.
KeyOfAll(c) == Global   \* mutant: the legacy key
KeyOf(c) == IF NameOf[c] # "" THEN NameOf[c] ELSE AccountOf[c]

KeyNames == {KeyOf(c) : c \in Clients} \cup {Global}
Accounts == {AccountOf[c] : c \in Clients}

VARIABLES
  open,     \* breaker keys that are set and not expired
  call,     \* call[c]: what client c is at, and what its call has met (mixed and
            \* blind: a 5xx other than 504, a Redis that did not answer; history)
  blamed,   \* accounts that were limited or stayed disconnected (history)
  late      \* calls that client c began since its key was last opened (history)

vars == <<open, call, blamed, late>>

Quiet == [at |-> "idle", n |-> 0, d |-> 0, exc |-> FALSE, mixed |-> FALSE, blind |-> FALSE,
          res |-> "none"]

TypeOK ==
  /\ open \subseteq KeyNames
  /\ call \in [Clients ->
       [at : {"idle", "ask", "send", "limited", "ended"}, n : 0..MaxRetries, d : 0..MaxDisconnect,
        exc : BOOLEAN, mixed : BOOLEAN, blind : BOOLEAN,
        res : {"none", "answer", "skipped", "alerted", "unanswered"}]]
  /\ \A c \in Clients : call[c].d <= call[c].n /\ (call[c].at = "ended" <=> call[c].res # "none")
  /\ blamed \subseteq Accounts
  /\ late \in [Clients -> Nat]

Init ==
  /\ open = {}
  /\ call = [c \in Clients |-> Quiet]
  /\ blamed = {}
  /\ late = [c \in Clients |-> 0]
-----------------------------------------------------------------------------
(* The breaker.                                                            *)

\* The first attempt is late if the breaker has been opened since it was asked.
Counted(c) ==
  late' = [late EXCEPT ![c] = IF c \in Asking /\ call[c].n = 0 /\ ~call[c].blind
                                 /\ KeyOf(c) \in open
                              THEN @ + 1 ELSE @]

\* set_metaapi_circuit_open; that it cannot is logged.
SetOpen(c) ==
  /\ \/ open' = open \cup {KeyOf(c)}
     \/ "redis" \in Faults /\ UNCHANGED open
  /\ blamed' = blamed \cup {AccountOf[c]}
  /\ IF KeyOf(c) \in open THEN Counted(c)
     ELSE late' = [e \in Clients |-> IF KeyOf(e) = KeyOf(c) THEN 0 ELSE late[e]]

CloseNever(k) == FALSE /\ UNCHANGED vars   \* mutant: set for setex

\* The key's time is over, or reset_metaapi_circuit, which deletes the keys it
\* has listed one by one, gets to it.
Close(k) ==
  /\ k \in open
  /\ open' = open \ {k}
  /\ UNCHANGED <<call, blamed, late>>
-----------------------------------------------------------------------------
(* A call of an adapter's method.                                          *)

\* "answer": a response, whatever its status; "alerted", "unanswered": None.
Ends(c, res) ==
  call' = [call EXCEPT ![c] = [Quiet EXCEPT !.at = "ended", !.res = res,
                                       !.mixed = res = "unanswered" /\ call[c].mixed]]

Begin(c) ==
  /\ call[c].at = "idle"
  /\ call' = [call EXCEPT ![c].at = IF c \in Asking THEN "ask" ELSE "send"]
  /\ UNCHANGED <<open, blamed, late>>

AskGlobal(c) ==   \* mutant: the key of the account is not looked at
  /\ call[c].at = "ask"
  /\ IF Global \in open THEN Ends(c, "skipped") ELSE call' = [call EXCEPT ![c].at = "send"]
  /\ UNCHANGED <<open, blamed, late>>

\* is_metaapi_circuit_open: the account's key, then the global one; no answer
\* means closed.
Ask(c) ==
  /\ call[c].at = "ask"
  /\ \/ IF {KeyOf(c), Global} \cap open # {}
        THEN Ends(c, "skipped")
        ELSE call' = [call EXCEPT ![c].at = "send"]
     \/ "redis" \in Faults /\ call' = [call EXCEPT ![c].at = "send", ![c].blind = TRUE]
  /\ UNCHANGED <<open, blamed, late>>

\* 200, or a status that is handed (401: raised) to the caller at once.
Answered(c) ==
  /\ Ends(c, "answer")
  /\ Counted(c)
  /\ UNCHANGED <<open, blamed>>

\* The loop is through: None, with an alert if an attempt has raised.
Exhausted(c, exc) == Ends(c, IF exc THEN "alerted" ELSE "unanswered")

TimesOutForgets(c) ==   \* mutant: only the last attempt is looked at
  /\ "timeout" \in Faults
  /\ IF call[c].n = MaxRetries THEN Exhausted(c, TRUE)
     ELSE call' = [call EXCEPT ![c].n = @ + 1]
  /\ Counted(c)
  /\ UNCHANGED <<open, blamed>>

TimesOut(c) ==
  /\ "timeout" \in Faults
  /\ IF call[c].n = MaxRetries THEN Exhausted(c, TRUE)
     ELSE call' = [call EXCEPT ![c].n = @ + 1, ![c].exc = TRUE]
  /\ Counted(c)
  /\ UNCHANGED <<open, blamed>>

Limited(c) ==
  /\ "limited" \in Faults
  /\ SetOpen(c)
  /\ call' = [call EXCEPT ![c].at = "limited"]

\* After sixty seconds the answer is returned, not None.
WakesUp(c) ==
  /\ call[c].at = "limited"
  /\ Ends(c, "answer")
  /\ UNCHANGED <<open, blamed, late>>

\* A 504 counts twice, as one of its own kind and as one of all attempts.
Disconnected(c) ==
  /\ "disconnected" \in Faults
  /\ IF call[c].d = MaxDisconnect
     THEN /\ SetOpen(c)
          /\ Ends(c, "answer")
     ELSE /\ IF call[c].n = MaxRetries THEN Exhausted(c, call[c].exc)
             ELSE call' = [call EXCEPT ![c].n = @ + 1, ![c].d = @ + 1]
          /\ Counted(c)
          /\ UNCHANGED <<open, blamed>>

ServerError(c) ==
  /\ "server" \in Faults
  /\ IF call[c].n = MaxRetries THEN Ends(c, "answer")
     ELSE call' = [call EXCEPT ![c].n = @ + 1, ![c].mixed = TRUE]
  /\ Counted(c)
  /\ UNCHANGED <<open, blamed>>

\* One attempt of _request_with_retry.  The breaker is not asked between attempts.
Attempt(c) ==
  /\ call[c].at = "send"
  /\ \/ Answered(c) \/ TimesOut(c) \/ Limited(c) \/ Disconnected(c)
     \/ ServerError(c)

Return(c) ==
  /\ call[c].at = "ended"
  /\ call' = [call EXCEPT ![c] = Quiet]
  /\ UNCHANGED <<open, blamed, late>>
-----------------------------------------------------------------------------
Step(c) == Begin(c) \/ Ask(c) \/ Attempt(c) \/ WakesUp(c) \/ Return(c)

Next ==
  \/ \E c \in Clients : Step(c)
  \/ \E k \in KeyNames : Close(k)

Spec == Init /\ [][Next]_vars

\* Clients poll, requests and sleeps end, keys have a time to live.
FairSpec ==
  /\ Spec
  /\ \A c \in Clients : WF_vars(Step(c))
  /\ \A k \in KeyNames : WF_vars(Close(k))
-----------------------------------------------------------------------------
\* Who is turned away has an account that was limited or stayed disconnected ("one
\* account's rate limit doesn't block other accounts").
Isolated == \A c \in Clients : call[c].res = "skipped" => AccountOf[c] \in blamed

\* Once a client has opened the breaker, whoever shares its key and asks for it
\* begins one more call at most, the one for which it has already asked.
NothingLate == \A c \in Asking : late[c] <= 1

\* A call that got no answer in all its attempts has sent an alert, unless a 5xx
\* of one kind and of the other have used up each other's attempts.
NoSilentFailure ==
  \A c \in Clients : call[c].res = "unanswered" => call[c].mixed

\* A breaker opens by itself again: who asks for its key gets through in the end.
Retried ==
  \A c \in Asking : KeyOf(c) \in open ~>
    \E e \in Clients : KeyOf(e) = KeyOf(c) /\ call[e].at = "send"

\* "Uses Redis so worker, API, and watchdog share the same state": a client is
\* turned away whoever of its account has opened the breaker.
SharedState ==
  [][\A c \in Asking, e \in Clients :
       AccountOf[e] = AccountOf[c] /\ KeyOf(e) \in open /\ call[c].at = "ask" /\ call'[c].at = "send"
         => call'[c].blind]_vars
=============================================================================
