------------------------------ MODULE Accounts ------------------------------
(***************************************************************************)
(* Accounts and the grants of connected clients.                            *)
(*                                                                          *)
(* A sign-up initializes a Mind of its own, then publishes the account      *)
(* record that selects it, and confirms it only after reading it back.  A   *)
(* client's grant passes from the request it is waiting on to a code, and   *)
(* from that to a pair of tokens renewed again and again: each exchange     *)
(* deactivates the record of what was presented, then saves the record of   *)
(* what replaces it, then answers.  A client that hears nothing presents    *)
(* the same again while the first call still runs; the process may stop     *)
(* between any two steps and answers may be lost.  Values expire.  The      *)
(* provider's mirrors in memory are left out: they go with the process.     *)
(***************************************************************************)
EXTENDS Naturals, FiniteSets

CONSTANTS
    SignUps,        \* sign-up calls; each brings the id of a new Mind
    Usernames,
    Operator,       \* the configured principal, who has no account record
    Clients,        \* connected clients, one grant each
    Calls,          \* the calls that a client may have under way at once
    Unowned,        \* no account record, no subject
    MaxIssued,      \* bound: values issued to one client
    MaxAccidents    \* bound: crashes, lost answers and expiries

ASSUME AccountsAssumption ==
    /\ Unowned \notin SignUps
    /\ Operator \notin SignUps \cup {Unowned}
    /\ {MaxIssued, MaxAccidents} \subseteq Nat

VARIABLES
    minds,          \* Minds initialized
    accounts,       \* username -> the Mind its account record selects
    signUp,         \* each sign-up
    records,        \* each client's active records
    client,         \* each client: what it holds, whose it is, whether it was cut short
    calls,          \* each client's calls: what each presents, for whom, what it gets
    accidents

accountVars == <<minds, accounts, signUp, records, client, calls, accidents>>

-----------------------------------------------------------------------------
\* A grant's values replace one another; each is issued once.
Value(kind, n) == [kind |-> kind, n |-> n]
NoGrant == Value("nothing", 0)

NextKind == [pending |-> "code", code |-> "tokens", tokens |-> "tokens"]

NewClient(held, issued) ==
    [holds |-> held, subject |-> Unowned, broken |-> FALSE, issued |-> issued]

NoCall == [step |-> "idle", of |-> NoGrant, subject |-> Unowned, gets |-> NoGrant]

\* The client waits for no answer.
IsQuiet(c) == \A i \in Calls : calls[c][i].step = "idle"

AccountsInit ==
    /\ minds = {}
    /\ accounts = [u \in Usernames |-> Unowned]
    /\ signUp = [s \in SignUps |-> [stage |-> "idle", username |-> CHOOSE u \in Usernames : TRUE]]
    /\ records = [c \in Clients |-> {}]
    /\ client = [c \in Clients |-> NewClient(NoGrant, 0)]
    /\ calls = [c \in Clients |-> [i \in Calls |-> NoCall]]
    /\ accidents = 0

-----------------------------------------------------------------------------
(* AccountService.create.                                                   *)

SignUpTo(s, stage) == signUp' = [signUp EXCEPT ![s].stage = stage]
NoGrants == UNCHANGED <<records, client, calls>>

CheckUsername(s, u) ==
    /\ signUp[s].stage = "idle"
    /\ signUp' = [signUp EXCEPT ![s] =
            [stage |-> IF accounts[u] = Unowned THEN "checked" ELSE "refused", username |-> u]]
    /\ UNCHANGED <<minds, accounts, accidents>> /\ NoGrants

\* _ensure_mind initializes the tenant before anything selects it, or fails.
InitializeMind(s) ==
    /\ signUp[s].stage = "checked"
    /\ \/ minds' = minds \cup {s} /\ SignUpTo(s, "initialized")
       \/ UNCHANGED minds /\ SignUpTo(s, "refused")
    /\ UNCHANGED <<accounts, accidents>> /\ NoGrants

\* Fault: the key of an account record is not unique.
PublishOver(s) ==
    /\ signUp[s].stage = "initialized"
    /\ accounts' = [accounts EXCEPT ![signUp[s].username] = s]
    /\ SignUpTo(s, "published")
    /\ UNCHANGED <<minds, accidents>> /\ NoGrants

\* The record's key is unique: of two sign-ups for one name the second fails.
Publish(s) ==
    /\ signUp[s].stage = "initialized"
    /\ IF accounts[signUp[s].username] = Unowned
       THEN /\ accounts' = [accounts EXCEPT ![signUp[s].username] = s]
            /\ SignUpTo(s, "published")
       ELSE /\ UNCHANGED accounts
            /\ SignUpTo(s, "refused")
    /\ UNCHANGED <<minds, accidents>> /\ NoGrants

ReadBack(s) ==
    /\ signUp[s].stage = "published"
    /\ SignUpTo(s, IF accounts[signUp[s].username] = s THEN "confirmed" ELSE "refused")
    /\ UNCHANGED <<minds, accounts, accidents>> /\ NoGrants

-----------------------------------------------------------------------------
(* The authorization server.                                                *)

NoAccounts == UNCHANGED <<minds, accounts, signUp>>

CallBecomes(c, i, call) == calls' = [calls EXCEPT ![c][i] = call]
Active(c) == client[c].holds \in records[c]
DropHeld(c) == records' = [records EXCEPT ![c] = @ \ {client[c].holds}]

\* A client with nothing that still works asks for authorization.
Authorize(c) ==
    /\ IsQuiet(c) /\ ~Active(c) /\ client[c].issued < MaxIssued
    /\ LET pending == Value("pending", client[c].issued + 1)
       IN /\ records' = [records EXCEPT ![c] = @ \cup {pending}]
          /\ client' = [client EXCEPT ![c] = NewClient(pending, pending.n)]
    /\ UNCHANGED <<calls, accidents>> /\ NoAccounts

\* Whom a sign-in may authenticate: the operator, whom no account record
\* describes, or the owner of an account, by the Mind it selects.
Authenticates(subject) ==
    \/ subject = Operator
    \/ subject # Unowned /\ \E u \in Usernames : accounts[u] = subject

\* The human signs in as somebody, whom the code and its tokens will name.
\* Only then is the request approved; the form may be sent twice.
SignIn(c, i, subject) ==
    /\ calls[c][i].step = "idle" /\ client[c].holds.kind = "pending" /\ Active(c)
    /\ Authenticates(subject)
    /\ CallBecomes(c, i, [NoCall EXCEPT !.step = "spending", !.of = client[c].holds,
                                        !.subject = subject])
    /\ UNCHANGED <<records, client, accidents>> /\ NoAccounts

Deny(c) ==
    /\ IsQuiet(c) /\ client[c].holds.kind = "pending" /\ Active(c)
    /\ DropHeld(c)
    /\ client' = [client EXCEPT ![c] = NewClient(NoGrant, @.issued)]
    /\ UNCHANGED <<calls, accidents>> /\ NoAccounts

\* A code or a refresh token is presented, and its record is active.
Present(c, i) ==
    /\ calls[c][i].step = "idle" /\ client[c].holds.kind \in {"code", "tokens"} /\ Active(c)
    /\ CallBecomes(c, i, [NoCall EXCEPT !.step = "spending", !.of = client[c].holds,
                                        !.subject = client[c].subject])
    /\ UNCHANGED <<records, client, accidents>> /\ NoAccounts

\* What is presented is deactivated.  If another call did that first, this one
\* goes on all the same, unless it had read the record before: then its
\* replacement is refused and the call fails.
SpendGrant(c, i) ==
    /\ calls[c][i].step = "spending"
    /\ \/ /\ records' = [records EXCEPT ![c] = @ \ {calls[c][i].of}]
          /\ CallBecomes(c, i, [calls[c][i] EXCEPT !.step = "saving"])
       \/ /\ calls[c][i].of \notin records[c]
          /\ CallBecomes(c, i, NoCall) /\ UNCHANGED records
    /\ UNCHANGED <<client, accidents>> /\ NoAccounts

SaveGrant(c, i) ==
    /\ calls[c][i].step = "saving" /\ client[c].issued < MaxIssued
    /\ LET gets == Value(NextKind[calls[c][i].of.kind], client[c].issued + 1)
       IN /\ records' = [records EXCEPT ![c] = @ \cup {gets}]
          /\ client' = [client EXCEPT ![c].issued = gets.n]
          /\ CallBecomes(c, i, [calls[c][i] EXCEPT !.step = "answering", !.gets = gets])
    /\ UNCHANGED accidents /\ NoAccounts

Receive(c, i) ==
    /\ calls[c][i].step = "answering"
    /\ client' = [client EXCEPT ![c] = [@ EXCEPT !.holds = calls[c][i].gets,
                                   !.subject = calls[c][i].subject, !.broken = FALSE]]
    /\ CallBecomes(c, i, NoCall)
    /\ UNCHANGED <<records, accidents>> /\ NoAccounts

\* revoke_token, at the client's own wish.
Revoke(c) ==
    /\ IsQuiet(c) /\ client[c].holds.kind = "tokens" /\ Active(c)
    /\ DropHeld(c)
    /\ client' = [client EXCEPT ![c] = NewClient(NoGrant, @.issued)]
    /\ UNCHANGED <<calls, accidents>> /\ NoAccounts

-----------------------------------------------------------------------------
(* Accidents.                                                               *)

Accident == accidents < MaxAccidents /\ accidents' = accidents + 1

\* The call has spent what the client holds, and the client has no answer yet.
CutsShort(c, i) ==
    calls[c][i].step \in {"saving", "answering"} /\ calls[c][i].of = client[c].holds

\* The process stops: every call ends where it was.
Stops ==
    /\ Accident
    /\ signUp' = [s \in SignUps |->
          IF signUp[s].stage \in {"confirmed", "refused", "idle"} THEN signUp[s]
          ELSE [signUp[s] EXCEPT !.stage = "refused"]]
    /\ client' = [c \in Clients |->
          [client[c] EXCEPT !.broken = @ \/ \E i \in Calls : CutsShort(c, i)]]
    /\ calls' = [c \in Clients |-> [i \in Calls |-> NoCall]]
    /\ UNCHANGED <<minds, accounts, records>>

AnswerLost(c, i) ==
    /\ Accident
    /\ calls[c][i].step = "answering"
    /\ client' = [client EXCEPT ![c].broken = @ \/ CutsShort(c, i)]
    /\ CallBecomes(c, i, NoCall)
    /\ UNCHANGED records /\ NoAccounts

Expires(c) ==
    /\ Accident
    /\ Active(c) /\ DropHeld(c)
    /\ client' = [client EXCEPT ![c].broken = TRUE]
    /\ UNCHANGED calls /\ NoAccounts

-----------------------------------------------------------------------------
AccountsNext ==
    \/ \E s \in SignUps :
          \/ \E u \in Usernames : CheckUsername(s, u)
          \/ InitializeMind(s) \/ Publish(s) \/ ReadBack(s)
    \/ \E c \in Clients :
          \/ Authorize(c) \/ Deny(c) \/ Revoke(c) \/ Expires(c)
          \/ \E i \in Calls :
                \/ Present(c, i) \/ SpendGrant(c, i) \/ SaveGrant(c, i) \/ Receive(c, i)
                \/ AnswerLost(c, i)
                \/ \E subject \in SignUps \cup {Operator} : SignIn(c, i, subject)
    \/ Stops

AccountsSpec == AccountsInit /\ [][AccountsNext]_accountVars

-----------------------------------------------------------------------------
\* Every account selects a Mind's id, and every value was issued.
AccountsOK ==
    /\ \A u \in Usernames : accounts[u] \in SignUps \cup {Unowned}
    /\ \A c \in Clients :
          /\ client[c].issued <= MaxIssued
          /\ \A v \in records[c] : v.kind \in DOMAIN NextKind /\ v.n \in 1 .. client[c].issued

\* An account whose record can be found selects a Mind that was initialized,
\* wherever a sign-up stopped; and a confirmed sign-up owns the name it asked
\* for, though another asked for it at the same time.
AccountsHaveMinds ==
    /\ \A u \in Usernames : accounts[u] # Unowned => accounts[u] \in minds
    /\ \A s \in SignUps : signUp[s].stage = "confirmed" => accounts[signUp[s].username] = s

\* Every grant beyond its request is the operator's, whom the root serves
\* without an account, or names the Mind of an account that can be found,
\* which was initialized.
GrantsSelectMinds ==
    \A c \in Clients :
        client[c].holds.kind \in {"code", "tokens"} =>
            /\ Authenticates(client[c].subject)
            /\ client[c].subject # Operator => client[c].subject \in minds

\* Between its calls a client's grant works, though it may have presented the
\* one before twice at once and taken either answer, and though the server
\* restarted: unless the last exchange was cut short after it spent what the
\* client holds, or that expired.  (Then the code leaves the client with
\* nothing, and it must ask again.)
GrantsOutliveRestarts ==
    \A c \in Clients :
        IsQuiet(c) /\ client[c].holds # NoGrant /\ ~client[c].broken => Active(c)

\* A grant leads to the operator or to an account that exists, with a mind of
\* its own, and works through restarts, lost answers and double presentation.
GrantsStand ==
    /\ AccountsOK
    /\ AccountsHaveMinds
    /\ GrantsSelectMinds
    /\ GrantsOutliveRestarts
=============================================================================
