------------------------------ MODULE AppToken ------------------------------
(***************************************************************************)
(* The Twitch app access token shared by the calls of one worker           *)
(* (TwitchAppTokenProvider) and the retry of a call Helix answers 401      *)
(* (SendHelixAsync of TwitchClient).                                       *)
(*                                                                         *)
(* Tokens are numbered as they are issued.  aged are those with at most    *)
(* five minutes to go, revoked those Helix refuses; a token may become     *)
(* either at any time.  A semaphore wait that is cancelled, and any other  *)
(* failure, ends the call (Fail).                                          *)
(***************************************************************************)
EXTENDS Naturals, FiniteSets

CONSTANTS
    Calls,    \* bound: Helix calls in progress at once
    MaxTokens \* bound: tokens issued

ASSUME MaxTokensAssumption == MaxTokens \in Nat

VARIABLES
    cached, \* _cachedToken; 0 for null
    issued, \* tokens issued
    aged,
    revoked,
    gate,   \* who holds _gate
    call    \* call[c]: where it is, its token, and the one refused before

tokenVars == <<cached, issued, aged, revoked, gate, call>>

tokens == <<issued, aged, revoked>>

Free == "free"

ASSUME FreeAssumption == Free \notin Calls

TokenIdle == [pc |-> "idle", token |-> 0, refused |-> 0]

TokenTypeOK ==
    /\ issued \in 0 .. MaxTokens
    /\ cached \in 0 .. issued
    /\ aged \subseteq 1 .. issued /\ revoked \subseteq 1 .. issued
    /\ gate \in Calls \cup {Free}
    /\ call \in [Calls -> [pc : {"idle", "get", "wait", "fetch", "send", "invalidate"},
                           token : 0 .. issued, refused : 0 .. issued]]

TokenInit ==
    /\ cached = 0 /\ issued = 0
    /\ aged = {} /\ revoked = {}
    /\ gate = Free
    /\ call = [c \in Calls |-> TokenIdle]

TokenAt(c, pc) == call[c].pc = pc

Usable == cached # 0 /\ cached \notin aged

Use(c, token) == call' = [call EXCEPT ![c].pc = "send", ![c].token = token]

TokenGoto(c, pc) == call' = [call EXCEPT ![c].pc = pc]

\* Twitch: a token ends its useful life, or is refused from now on.
Age(t) ==
    /\ t <= issued /\ t \notin aged /\ aged' = aged \cup {t}
    /\ UNCHANGED <<cached, issued, revoked, gate, call>>

Revoke(t) ==
    /\ t <= issued /\ t \notin revoked /\ revoked' = revoked \cup {t}
    /\ UNCHANGED <<cached, issued, aged, gate, call>>

Start(c) ==
    /\ TokenAt(c, "idle")
    /\ TokenGoto(c, "get")
    /\ UNCHANGED <<cached, tokens, gate>>

\* GetAsync, before the semaphore.
ReadCached(c) ==
    /\ TokenAt(c, "get")
    /\ IF Usable THEN Use(c, cached) ELSE TokenGoto(c, "wait")
    /\ UNCHANGED <<cached, tokens, gate>>

\* Broken: it fetches without reading again.
EnterToFetch(c) ==
    /\ TokenAt(c, "wait") /\ gate = Free /\ issued < MaxTokens
    /\ gate' = c /\ TokenGoto(c, "fetch")
    /\ UNCHANGED <<cached, tokens>>

\* GetAsync, with the semaphore: it reads again, and fetches if it must.
Enter(c) ==
    /\ TokenAt(c, "wait") /\ gate = Free
    /\ IF Usable
       THEN Use(c, cached) /\ UNCHANGED gate
       ELSE issued < MaxTokens /\ gate' = c /\ TokenGoto(c, "fetch")
    /\ UNCHANGED <<cached, tokens>>

Fetch(c) ==
    /\ TokenAt(c, "fetch")
    /\ issued' = issued + 1
    /\ cached' = issued + 1
    /\ gate' = Free
    /\ Use(c, issued + 1)
    /\ UNCHANGED <<aged, revoked>>

\* Helix answers: anything but 401 ends the call.
Send(c) ==
    /\ TokenAt(c, "send")
    /\ IF call[c].token \in revoked
       THEN TokenGoto(c, "invalidate")
       ELSE call' = [call EXCEPT ![c] = TokenIdle]
    /\ UNCHANGED <<cached, tokens, gate>>

Rejected(c) == IF cached = call[c].token THEN 0 ELSE cached

Invalidate(c) ==
    /\ TokenAt(c, "invalidate") /\ gate = Free
    /\ cached' = Rejected(c)
    /\ call' = [call EXCEPT ![c] =
                  IF @.refused = 0 THEN [pc |-> "get", token |-> 0, refused |-> @.token] ELSE TokenIdle]
    /\ UNCHANGED <<tokens, gate>>

TokenFail(c) ==
    /\ call[c].pc \notin {"idle", "get"}
    /\ gate' = IF gate = c THEN Free ELSE gate
    /\ call' = [call EXCEPT ![c] = TokenIdle]
    /\ UNCHANGED <<cached, tokens>>

TokenNext ==
    \/ \E c \in Calls :
         Start(c) \/ ReadCached(c) \/ Enter(c) \/ Fetch(c) \/ Send(c) \/ Invalidate(c) \/ TokenFail(c)
    \/ \E t \in 1 .. MaxTokens : Age(t) \/ Revoke(t)

\* A call goes on, HTTP requests end, and the semaphore passes over nobody.
TokenFairness ==
    \A c \in Calls :
        /\ WF_tokenVars(ReadCached(c)) /\ WF_tokenVars(Fetch(c) \/ (TokenAt(c, "fetch") /\ TokenFail(c))) /\ WF_tokenVars(Send(c))
        /\ SF_tokenVars(Enter(c)) /\ SF_tokenVars(Invalidate(c))

TokenSpec == TokenInit /\ [][TokenNext]_tokenVars /\ TokenFairness

(* Only a token Helix refused is dropped: a 401 that comes late, for the    *)
(* token before, leaves the replacement that another call has obtained.     *)
ReplacementKept == [][cached # 0 /\ cached' = 0 => cached \in revoked]_tokenVars

(* Calls that find no usable token at once share one request for it: a      *)
(* token is asked for only when the last one has aged or was refused.       *)
NoStampede == issued <= 1 + Cardinality(aged \cup revoked)

(* The one retry is worth making: it never carries the refused token again. *)
RetryUsesAnother ==
    \A c \in Calls : TokenAt(c, "send") => call[c].token # call[c].refused

(* One token serves all calls: both of the above.                           *)
TokenShared == NoStampede /\ RetryUsesAnother
=============================================================================
