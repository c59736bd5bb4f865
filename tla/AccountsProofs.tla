---------------------------- MODULE AccountsProofs ----------------------------
(***************************************************************************)
(* Proofs about Accounts: an account has its Mind, a grant leads to one or  *)
(* to the operator, and outlives restarts and double presentation, for any  *)
(* sign-ups, names, clients, calls and bounds.                              *)
(***************************************************************************)
EXTENDS Accounts, TLAPS

Kinds == {"pending", "code", "tokens"}
Grants == [kind : Kinds, n : Nat]
Subjects == SignUps \cup {Operator, Unowned}

Connections == [holds : Grants \cup {NoGrant}, subject : Subjects, broken : BOOLEAN, issued : Nat]

Exchanges == [step : {"idle", "spending", "saving", "answering"}, of : Grants \cup {NoGrant},
              subject : Subjects, gets : Grants \cup {NoGrant}]

SignUpStages == {"idle", "checked", "initialized", "published", "confirmed", "refused"}

\* The types of the variables; a sign-up has a name once it has begun.
AccountTypes ==
    /\ minds \subseteq SignUps
    /\ accounts \in [Usernames -> SignUps \cup {Unowned}]
    /\ \E names : signUp \in [SignUps -> [stage : SignUpStages, username : names]]
    /\ \A s \in SignUps : signUp[s].stage # "idle" => signUp[s].username \in Usernames
    /\ records \in [Clients -> SUBSET Grants]
    /\ client \in [Clients -> Connections]
    /\ calls \in [Clients -> [Calls -> Exchanges]]

\* A sign-up publishes an account only after its Mind is initialized, and keeps
\* what it has published.
SignUpsInOrder ==
    \A s \in SignUps :
        /\ signUp[s].stage \in {"initialized", "published", "confirmed"} => s \in minds
        /\ signUp[s].stage = "confirmed" => accounts[signUp[s].username] = s

\* A value was issued, by a number of its own.
Issued(v, k) == v \in Grants /\ v.n \in 1 .. k.issued

\* Somebody who can still be authenticated.
Found(subject) == Authenticates(subject)

\* What is true of a client, its calls and the records of its grant: all values
\* were issued; what replaces one that is spent is active before the client hears
\* of it, and nobody else has it yet; what the client holds is active unless a
\* call under way has spent it, or it was cut short.
Proper(k, cs, active) ==
    /\ k.issued <= MaxIssued
    /\ \A v \in active : Issued(v, k)
    /\ k.holds # NoGrant => Issued(k.holds, k)
    /\ k.holds.kind \in {"code", "tokens"} => Found(k.subject)
    /\ \A i \in Calls :
          /\ cs[i].step # "idle" => Issued(cs[i].of, k) /\ Found(cs[i].subject)
          /\ cs[i].step = "answering" =>
                /\ cs[i].gets \in active
                /\ cs[i].gets # k.holds
                /\ \A j \in Calls : /\ cs[j].step # "idle" => cs[j].of # cs[i].gets
                                    /\ cs[j].step = "answering" /\ j # i => cs[j].gets # cs[i].gets
    /\ \/ k.holds = NoGrant
       \/ k.broken
       \/ k.holds \in active
       \/ \E i \in Calls : cs[i].step \in {"saving", "answering"} /\ cs[i].of = k.holds

ClientsProper == \A c \in Clients : Proper(client[c], calls[c], records[c])

\* None of the parts of GrantsStand is inductive without the order of the steps
\* of a sign-up and of an exchange.
Standing ==
    /\ AccountTypes
    /\ SignUpsInOrder
    /\ ClientsProper
    /\ AccountsHaveMinds

-----------------------------------------------------------------------------
\* The kinds and numbers of grants.
LEMMA GrantFacts ==
    /\ \A n \in Nat : /\ Value("pending", n) \in Grants /\ Value("pending", n) # NoGrant
                      /\ Value("pending", n).kind = "pending" /\ Value("pending", n).n = n
    /\ NoGrant.kind = "nothing" /\ NoGrant \notin Grants
BY DEF Grants, Kinds, Value, NoGrant

\* What replaces a value.
LEMMA NextIsGrant ==
    ASSUME NEW v \in Grants, NEW n \in Nat
    PROVE  /\ Value(NextKind[v.kind], n) \in Grants
           /\ Value(NextKind[v.kind], n).n = n
<1>1. PICK kind \in Kinds : kind = v.kind
  BY DEF Grants
<1>2. NextKind[kind] \in Kinds
  BY DEF NextKind, Kinds
<1> QED
  BY <1>1, <1>2 DEF Grants, Value

LEMMA NewClientIsConnection ==
    ASSUME NEW v \in Grants \cup {NoGrant}, NEW n \in Nat
    PROVE  LET k == NewClient(v, n)
           IN  /\ k \in Connections
               /\ k.holds = v /\ k.issued = n /\ k.subject = Unowned /\ ~k.broken
    BY DEF NewClient, Connections, Subjects

LEMMA NoCallIsExchange == NoCall \in Exchanges /\ NoCall.step = "idle"
    BY DEF NoCall, Exchanges, Subjects

\* What an edit of some fields leaves of a client, or of a call.
LEMMA BrokenBecomes ==
    ASSUME NEW k \in Connections, NEW lost \in BOOLEAN
    PROVE  LET e == [k EXCEPT !.broken = lost]
           IN  /\ e \in Connections /\ e.broken = lost
               /\ e.holds = k.holds /\ e.subject = k.subject /\ e.issued = k.issued
    BY DEF Connections

LEMMA IssuedBecomes ==
    ASSUME NEW k \in Connections, NEW n \in Nat
    PROVE  LET e == [k EXCEPT !.issued = n]
           IN  /\ e \in Connections /\ e.issued = n
               /\ e.holds = k.holds /\ e.subject = k.subject /\ e.broken = k.broken
    BY DEF Connections

\* A client that has its answer.
Answered(k, h, u) == [k EXCEPT !.holds = h, !.subject = u, !.broken = FALSE]

LEMMA HoldsBecomes ==
    ASSUME NEW k \in Connections, NEW h \in Grants, NEW u \in Subjects
    PROVE  LET e == Answered(k, h, u)
           IN  /\ e \in Connections /\ e.holds = h /\ e.subject = u /\ e.issued = k.issued
    BY DEF Connections, Answered

LEMMA CallBegins ==
    ASSUME NEW v \in Grants, NEW u \in Subjects
    PROVE  \E f \in Exchanges : /\ f = [NoCall EXCEPT !.step = "spending", !.of = v, !.subject = u]
                                /\ f.step = "spending" /\ f.of = v /\ f.subject = u
<1> DEFINE f == [NoCall EXCEPT !.step = "spending", !.of = v, !.subject = u]
<1>1. f \in Exchanges /\ f.step = "spending" /\ f.of = v /\ f.subject = u
    BY DEF Exchanges, NoCall, Subjects
<1> QED
    BY <1>1

LEMMA SpendingBecomes ==
    ASSUME NEW e \in Exchanges
    PROVE  LET f == [e EXCEPT !.step = "saving"]
           IN  f \in Exchanges /\ f.step = "saving" /\ f.of = e.of /\ f.subject = e.subject
    BY DEF Exchanges

LEMMA SavingBecomes ==
    ASSUME NEW e \in Exchanges, NEW g \in Grants
    PROVE  \E f \in Exchanges : /\ f = [e EXCEPT !.step = "answering", !.gets = g]
                                /\ f.step = "answering" /\ f.gets = g
                                /\ f.of = e.of /\ f.subject = e.subject
<1> DEFINE f == [e EXCEPT !.step = "answering", !.gets = g]
<1>1. /\ f \in Exchanges /\ f.step = "answering" /\ f.gets = g
      /\ f.of = e.of /\ f.subject = e.subject
    BY DEF Exchanges
<1> QED
    BY <1>1

-----------------------------------------------------------------------------
LEMMA InitiallyStanding == AccountsInit => Standing
<1> SUFFICES ASSUME AccountsInit PROVE Standing
    OBVIOUS
<1>1. PICK k \in Connections :
          /\ k = NewClient(NoGrant, 0) /\ k.holds = NoGrant /\ k.issued = 0
    BY NewClientIsConnection
<1>2. PICK cs \in [Calls -> Exchanges] :
          cs = [i \in Calls |-> NoCall] /\ \A i \in Calls : cs[i].step = "idle"
  <2> DEFINE none == [i \in Calls |-> NoCall]
  <2>1. none \in [Calls -> Exchanges] /\ \A i \in Calls : none[i].step = "idle"
      BY NoCallIsExchange
  <2> QED
      BY <2>1
<1>3. AccountTypes
  <2>1. signUp \in [SignUps -> [stage : SignUpStages,
                                username : {CHOOSE u \in Usernames : TRUE}]]
      BY DEF AccountsInit, SignUpStages
  <2>2. /\ client = [c \in Clients |-> k] /\ calls = [c \in Clients |-> cs]
        /\ records = [c \in Clients |-> {}]
      BY <1>1, <1>2 DEF AccountsInit
  <2>3. /\ minds = {} /\ accounts = [u \in Usernames |-> Unowned]
        /\ \A s \in SignUps : signUp[s].stage = "idle"
      BY DEF AccountsInit
  <2> QED
      BY <2>1, <2>2, <2>3 DEF AccountTypes
<1>4. SignUpsInOrder /\ AccountsHaveMinds
    BY DEF AccountsInit, SignUpsInOrder, AccountsHaveMinds
<1>5. Proper(k, cs, {})
    BY <1>1, <1>2, GrantFacts, AccountsAssumption DEF Proper
<1>6. ClientsProper
    BY <1>1, <1>2, <1>5 DEF AccountsInit, ClientsProper
<1> QED
    BY <1>3, <1>4, <1>6 DEF Standing

(* Sign-ups leave grants alone, and accounts only come. *)
LEMMA SignUpKeepsGrants ==
    ASSUME Standing, UNCHANGED <<records, client, calls>>,
           \A u \in Usernames : accounts'[u] # accounts[u] => accounts[u] = Unowned
    PROVE  ClientsProper'
<1>1. \A subject : Found(subject) => Found(subject)'
    BY DEF Found, Authenticates
<1>2. ASSUME NEW c \in Clients PROVE Proper(client[c], calls[c], records[c])'
  <2>1. Proper(client[c], calls[c], records[c])
      BY DEF Standing, ClientsProper
  <2> QED
      BY <1>1, <2>1 DEF Proper
<1> QED
    BY <1>2 DEF ClientsProper

\* A sign-up that goes on to a stage, its name being u.
LEMMA SignUpMoves ==
    ASSUME Standing, NEW s \in SignUps, NEW stage \in SignUpStages \ {"idle"}, NEW u \in Usernames,
           signUp' = [signUp EXCEPT ![s] = [stage |-> stage, username |-> u]]
    PROVE  /\ \E names : signUp' \in [SignUps -> [stage : SignUpStages, username : names]]
           /\ \A x \in SignUps : signUp'[x].stage # "idle" => signUp'[x].username \in Usernames
           /\ signUp'[s].stage = stage /\ signUp'[s].username = u
           /\ \A x \in SignUps \ {s} : signUp'[x] = signUp[x]
<1>1. PICK names : signUp \in [SignUps -> [stage : SignUpStages, username : names]]
    BY DEF Standing, AccountTypes
<1>2. signUp' \in [SignUps -> [stage : SignUpStages, username : names \cup {u}]]
    BY <1>1
<1>3. /\ signUp'[s].stage = stage /\ signUp'[s].username = u
      /\ \A x \in SignUps \ {s} : signUp'[x] = signUp[x]
    BY <1>1
<1>4. \A x \in SignUps : signUp[x].stage # "idle" => signUp[x].username \in Usernames
    BY DEF Standing, AccountTypes
<1>5. \A x \in SignUps : signUp'[x].stage # "idle" => signUp'[x].username \in Usernames
    BY <1>3, <1>4
<1> QED
    BY <1>2, <1>3, <1>5

\* SignUpTo keeps the name.
LEMMA SignUpToMoves ==
    ASSUME Standing, NEW s \in SignUps, NEW stage, SignUpTo(s, stage)
    PROVE  signUp' = [signUp EXCEPT ![s] = [stage |-> stage, username |-> signUp[s].username]]
<1>1. PICK names : signUp \in [SignUps -> [stage : SignUpStages, username : names]]
    BY DEF Standing, AccountTypes
<1>2. [signUp[s] EXCEPT !.stage = stage] = [stage |-> stage, username |-> signUp[s].username]
    BY <1>1
<1> QED
    BY <1>2 DEF SignUpTo

LEMMA SignUpStep ==
    ASSUME Standing, NEW s \in SignUps,
           \/ \E u \in Usernames : CheckUsername(s, u)
           \/ InitializeMind(s) \/ Publish(s) \/ ReadBack(s)
    PROVE  Standing'
<1> USE DEF NoGrants
<1>1. ASSUME NEW u \in Usernames, CheckUsername(s, u) PROVE Standing'
  <2> PICK stage \in {"checked", "refused"} :
          signUp' = [signUp EXCEPT ![s] = [stage |-> stage, username |-> u]]
      BY <1>1 DEF CheckUsername
  <2>1. UNCHANGED <<minds, accounts, records, client, calls>>
      BY <1>1 DEF CheckUsername
  <2>2. stage \in SignUpStages \ {"idle"}
      BY DEF SignUpStages
  <2>3. AccountTypes'
      BY <2>1, <2>2, SignUpMoves DEF Standing, AccountTypes
  <2>4. SignUpsInOrder' /\ AccountsHaveMinds'
      BY <2>1, <2>2, SignUpMoves DEF Standing, SignUpsInOrder, AccountsHaveMinds
  <2> QED
      BY <2>1, <2>3, <2>4, SignUpKeepsGrants DEF Standing
<1>2. CASE InitializeMind(s)
  <2> DEFINE u == signUp[s].username
  <2>1. u \in Usernames /\ signUp[s].stage = "checked"
      BY <1>2 DEF InitializeMind, Standing, AccountTypes
  <2>2. PICK stage \in {"initialized", "refused"} :
            /\ SignUpTo(s, stage)
            /\ stage = "initialized" => minds' = minds \cup {s}
            /\ stage = "refused" => UNCHANGED minds
      BY <1>2 DEF InitializeMind
  <2>3. stage \in SignUpStages \ {"idle"}
      BY DEF SignUpStages
  <2>4. signUp' = [signUp EXCEPT ![s] = [stage |-> stage, username |-> u]]
      BY <2>2, SignUpToMoves
  <2>5. UNCHANGED <<accounts, records, client, calls>>
      BY <1>2 DEF InitializeMind
  <2>6. minds \subseteq minds' /\ minds' \subseteq SignUps
      BY <2>2 DEF Standing, AccountTypes
  <2>7. AccountTypes'
      BY <2>1, <2>3, <2>4, <2>5, <2>6, SignUpMoves DEF Standing, AccountTypes
  <2>8. SignUpsInOrder' /\ AccountsHaveMinds'
      BY <2>1, <2>2, <2>3, <2>4, <2>5, <2>6, SignUpMoves
      DEF Standing, SignUpsInOrder, AccountsHaveMinds
  <2> QED
      BY <2>5, <2>6, <2>7, <2>8, SignUpKeepsGrants DEF Standing
<1>3. CASE Publish(s)
  <2> DEFINE u == signUp[s].username
  <2>1. u \in Usernames /\ signUp[s].stage = "initialized" /\ s \in minds
      BY <1>3 DEF Publish, Standing, AccountTypes, SignUpsInOrder
  <2>2. PICK stage \in {"published", "refused"} :
            /\ SignUpTo(s, stage)
            /\ \/ accounts[u] = Unowned /\ accounts' = [accounts EXCEPT ![u] = s]
               \/ UNCHANGED accounts
      BY <1>3 DEF Publish
  <2>3. stage \in SignUpStages \ {"idle", "confirmed"}
      BY DEF SignUpStages
  <2>4. signUp' = [signUp EXCEPT ![s] = [stage |-> stage, username |-> u]]
      BY <2>2, SignUpToMoves
  <2>5. UNCHANGED <<minds, records, client, calls>>
      BY <1>3 DEF Publish
  <2>6. AccountTypes'
      BY <2>1, <2>2, <2>3, <2>4, <2>5, SignUpMoves DEF Standing, AccountTypes
  <2>7. \A x \in Usernames : accounts'[x] # accounts[x] => accounts[x] = Unowned /\ accounts'[x] = s
      BY <2>1, <2>2 DEF Standing, AccountTypes
  <2>8. AccountsHaveMinds'
      BY <2>1, <2>3, <2>4, <2>5, <2>7, SignUpMoves, AccountsAssumption
      DEF Standing, AccountTypes, AccountsHaveMinds
  <2>9. SignUpsInOrder'
      BY <2>1, <2>3, <2>4, <2>5, <2>7, SignUpMoves, AccountsAssumption
      DEF Standing, AccountTypes, SignUpsInOrder
  <2> QED
      BY <2>5, <2>6, <2>7, <2>8, <2>9, SignUpKeepsGrants DEF Standing
<1>4. CASE ReadBack(s)
  <2> DEFINE u == signUp[s].username
  <2>1. u \in Usernames /\ s \in minds
      BY <1>4 DEF ReadBack, Standing, AccountTypes, SignUpsInOrder
  <2>2. PICK stage \in {"confirmed", "refused"} :
            SignUpTo(s, stage) /\ (stage = "confirmed" => accounts[u] = s)
      BY <1>4 DEF ReadBack
  <2>3. stage \in SignUpStages \ {"idle"}
      BY DEF SignUpStages
  <2>4. signUp' = [signUp EXCEPT ![s] = [stage |-> stage, username |-> u]]
      BY <2>2, SignUpToMoves
  <2>5. UNCHANGED <<minds, accounts, records, client, calls>>
      BY <1>4 DEF ReadBack
  <2>6. AccountTypes'
      BY <2>1, <2>3, <2>4, <2>5, SignUpMoves DEF Standing, AccountTypes
  <2>7. SignUpsInOrder' /\ AccountsHaveMinds'
      BY <2>1, <2>2, <2>3, <2>4, <2>5, SignUpMoves DEF Standing, SignUpsInOrder, AccountsHaveMinds
  <2> QED
      BY <2>5, <2>6, <2>7, SignUpKeepsGrants DEF Standing
<1> QED
    BY <1>1, <1>2, <1>3, <1>4

-----------------------------------------------------------------------------
LEMMA ClientsAreProper ==
    ASSUME Standing, NEW c \in Clients
    PROVE  /\ client[c] \in Connections /\ records[c] \in SUBSET Grants
           /\ calls[c] \in [Calls -> Exchanges]
           /\ client[c].holds \in Grants \cup {NoGrant} /\ client[c].issued \in Nat
           /\ \A i \in Calls : calls[c][i] \in Exchanges
           /\ Proper(client[c], calls[c], records[c])
    BY DEF Standing, AccountTypes, ClientsProper, Connections

\* A step that changes one client, its calls and its records, to what is proper.
LEMMA ExchangeMoves ==
    ASSUME Standing, NEW c \in Clients, NEW k \in Connections, NEW cs \in [Calls -> Exchanges],
           NEW active \in SUBSET Grants,
           client' = [client EXCEPT ![c] = k], calls' = [calls EXCEPT ![c] = cs],
           records' = [records EXCEPT ![c] = active],
           Proper(k, cs, active), UNCHANGED <<minds, accounts, signUp>>
    PROVE  Standing'
<1>1. AccountTypes'
    BY DEF Standing, AccountTypes
<1>2. SignUpsInOrder' /\ AccountsHaveMinds'
    BY DEF Standing, SignUpsInOrder, AccountsHaveMinds
<1>3. \A x \in Clients : /\ client'[x] = IF x = c THEN k ELSE client[x]
                         /\ calls'[x] = IF x = c THEN cs ELSE calls[x]
                         /\ records'[x] = IF x = c THEN active ELSE records[x]
    BY DEF Standing, AccountTypes
<1>4. \A x \in Clients : Proper(client[x], calls[x], records[x])
    BY DEF Standing, ClientsProper
<1>5. \A subject : Found(subject) => Found(subject)'
    BY DEF Found, Authenticates
<1>6. Proper(k, cs, active)' /\ \A x \in Clients : Proper(client[x], calls[x], records[x]) =>
                                     (x # c => Proper(client[x], calls[x], records[x])')
  <2>1. Proper(k, cs, active)'
      BY <1>5 DEF Proper
  <2>2. ASSUME NEW x \in Clients, x # c, Proper(client[x], calls[x], records[x])
        PROVE  Proper(client[x], calls[x], records[x])'
    <3>1. client'[x] = client[x] /\ calls'[x] = calls[x] /\ records'[x] = records[x]
        BY <1>3, <2>2
    <3> QED
        BY <1>5, <2>2, <3>1 DEF Proper
  <2> QED
      BY <2>1, <2>2
<1>7. ASSUME NEW x \in Clients PROVE Proper(client[x], calls[x], records[x])'
  <2>1. CASE x # c
      BY <1>4, <1>6, <2>1
  <2>2. CASE x = c
      BY <1>3, <1>6, <2>2 DEF Proper
  <2> QED
      BY <2>1, <2>2
<1>8. ClientsProper'
    BY <1>7 DEF ClientsProper
<1> QED
    BY <1>1, <1>2, <1>8 DEF Standing

\* One call of a client becomes another.
LEMMA CallMoves ==
    ASSUME Standing, NEW c \in Clients, NEW i \in Calls, NEW call \in Exchanges,
           CallBecomes(c, i, call)
    PROVE  \E cs \in [Calls -> Exchanges] :
              /\ calls' = [calls EXCEPT ![c] = cs]
              /\ \A j \in Calls : cs[j] = IF j = i THEN call ELSE calls[c][j]
<1>1. calls[c] \in [Calls -> Exchanges] /\ calls \in [Clients -> [Calls -> Exchanges]]
    BY DEF Standing, AccountTypes
<1>2. PICK cs \in [Calls -> Exchanges] : cs = [calls[c] EXCEPT ![i] = call]
    BY <1>1
<1>3. calls' = [calls EXCEPT ![c] = cs]
    BY <1>1, <1>2 DEF CallBecomes
<1> QED
    BY <1>1, <1>2, <1>3

\* What leaves the calls, or the records, or the client alone.
LEMMA KeptParts ==
    ASSUME Standing, NEW c \in Clients
    PROVE  /\ UNCHANGED calls => calls' = [calls EXCEPT ![c] = calls[c]]
           /\ UNCHANGED client => client' = [client EXCEPT ![c] = client[c]]
           /\ UNCHANGED records => records' = [records EXCEPT ![c] = records[c]]
    BY DEF Standing, AccountTypes

LEMMA AuthorizeStep ==
    ASSUME Standing, NEW c \in Clients, Authorize(c) PROVE Standing'
<1>1. PICK n \in Nat : n = client[c].issued + 1 /\ n <= MaxIssued /\ n >= 1
    BY ClientsAreProper, AccountsAssumption DEF Authorize
<1>2. PICK pending \in Grants : /\ pending = Value("pending", n) /\ pending # NoGrant
                                /\ pending.n = n /\ pending.kind = "pending"
    BY GrantFacts
<1>3. PICK k \in Connections : k = NewClient(pending, n) /\ k.holds = pending /\ k.issued = n
    BY NewClientIsConnection
<1>4. PICK active \in SUBSET Grants : active = records[c] \cup {pending}
    BY ClientsAreProper
<1>5. Proper(k, calls[c], active)
  <2>1. \A v \in records[c] : Issued(v, client[c])
      BY ClientsAreProper DEF Proper
  <2>2. \A v \in active : Issued(v, k)
      BY <1>1, <1>2, <1>3, <1>4, <2>1, ClientsAreProper DEF Issued, Grants
  <2>3. \A i \in Calls : calls[c][i].step = "idle"
      BY DEF Authorize, IsQuiet
  <2> QED
      BY <1>1, <1>2, <1>3, <1>4, <2>2, <2>3 DEF Proper
<1>6. client' = [client EXCEPT ![c] = k] /\ records' = [records EXCEPT ![c] = active]
    BY <1>1, <1>2, <1>3, <1>4 DEF Authorize
<1>7. UNCHANGED <<calls, minds, accounts, signUp>>
    BY DEF Authorize, NoAccounts
<1> QED
    BY <1>5, <1>6, <1>7, ClientsAreProper, KeptParts, ExchangeMoves

\* The request is denied, or the client revokes its tokens.
LEMMA GiveUpStep ==
    ASSUME Standing, NEW c \in Clients, Deny(c) \/ Revoke(c) PROVE Standing'
<1>1. PICK k \in Connections : /\ k = NewClient(NoGrant, client[c].issued)
                               /\ k.holds = NoGrant /\ k.issued = client[c].issued
    BY ClientsAreProper, NewClientIsConnection
<1>2. PICK active \in SUBSET Grants : active = records[c] \ {client[c].holds}
    BY ClientsAreProper
<1>3. \A i \in Calls : calls[c][i].step = "idle"
    BY DEF Deny, Revoke, IsQuiet
<1>4. Proper(k, calls[c], active)
    BY <1>1, <1>2, <1>3, ClientsAreProper, GrantFacts DEF Proper, Issued
<1>5. client' = [client EXCEPT ![c] = k] /\ records' = [records EXCEPT ![c] = active]
    BY <1>1, <1>2 DEF Deny, Revoke, DropHeld
<1>6. UNCHANGED <<calls, minds, accounts, signUp>>
    BY DEF Deny, Revoke, NoAccounts
<1> QED
    BY <1>4, <1>5, <1>6, ClientsAreProper, KeptParts, ExchangeMoves

\* Somebody signs in, or a code or a refresh token is presented.
LEMMA PresentStep ==
    ASSUME Standing, NEW c \in Clients, NEW i \in Calls,
           Present(c, i) \/ \E subject \in SignUps \cup {Operator} : SignIn(c, i, subject)
    PROVE  Standing'
<1>1. PICK subject \in Subjects :
          /\ Found(subject)
          /\ CallBecomes(c, i, [NoCall EXCEPT !.step = "spending", !.of = client[c].holds,
                                              !.subject = subject])
  <2>1. CASE Present(c, i)
    <3>1. client[c].subject \in Subjects
        BY ClientsAreProper DEF Connections
    <3>2. Found(client[c].subject)
        BY <2>1, ClientsAreProper DEF Present, Proper
    <3> QED
        BY <2>1, <3>1, <3>2 DEF Present
  <2>2. ASSUME NEW subject \in SignUps \cup {Operator}, SignIn(c, i, subject)
        PROVE  /\ subject \in Subjects /\ Found(subject)
               /\ CallBecomes(c, i, [NoCall EXCEPT !.step = "spending", !.of = client[c].holds,
                                                   !.subject = subject])
      BY <2>2 DEF SignIn, Found, Subjects
  <2> QED
      BY <2>1, <2>2
<1>2. PICK v \in Grants : v = client[c].holds /\ Issued(v, client[c]) /\ v \in records[c]
  <2>1. client[c].holds \in records[c]
      BY DEF Present, SignIn, Active
  <2> QED
      BY <2>1, ClientsAreProper DEF Proper
<1>3. PICK call \in Exchanges :
          /\ CallBecomes(c, i, call)
          /\ call.step = "spending" /\ call.of = v /\ call.subject = subject
  <2>1. CallBecomes(c, i, [NoCall EXCEPT !.step = "spending", !.of = v, !.subject = subject])
      BY <1>1, <1>2
  <2> QED
    <3>1. PICK f \in Exchanges :
              /\ f = [NoCall EXCEPT !.step = "spending", !.of = v, !.subject = subject]
              /\ f.step = "spending" /\ f.of = v /\ f.subject = subject
        BY <1>1, <1>2, CallBegins, Zenon
    <3>2. CallBecomes(c, i, f)
        BY <2>1, <3>1, Zenon
    <3> QED
        BY <3>1, <3>2, Zenon
<1>4. PICK cs \in [Calls -> Exchanges] :
          /\ calls' = [calls EXCEPT ![c] = cs]
          /\ \A j \in Calls : cs[j] = IF j = i THEN call ELSE calls[c][j]
    BY <1>3, CallMoves
<1>5. calls[c][i].step = "idle" /\ UNCHANGED <<records, client, minds, accounts, signUp>>
    BY DEF Present, SignIn, NoAccounts
<1>6. Proper(client[c], cs, records[c])
  <2>1. Proper(client[c], calls[c], records[c])
      BY ClientsAreProper
  <2>2. \A j \in Calls : /\ cs[j].step # "idle" => Issued(cs[j].of, client[c]) /\ Found(cs[j].subject)
                         /\ cs[j].step = "answering" => j # i /\ cs[j] = calls[c][j]
                         /\ j # i => cs[j] = calls[c][j]
      BY <1>1, <1>2, <1>3, <1>4, <2>1 DEF Proper
  <2>3. ASSUME NEW j \in Calls, cs[j].step = "answering"
        PROVE  /\ cs[j].gets \in records[c] /\ cs[j].gets # client[c].holds
               /\ \A l \in Calls : /\ cs[l].step # "idle" => cs[l].of # cs[j].gets
                                   /\ cs[l].step = "answering" /\ l # j => cs[l].gets # cs[j].gets
      BY <1>2, <1>3, <1>4, <2>1, <2>2, <2>3 DEF Proper
  <2> QED
      BY <1>2, <2>1, <2>2, <2>3 DEF Proper
<1> QED
    BY <1>4, <1>5, <1>6, ClientsAreProper, KeptParts, ExchangeMoves

\* What calls still get when others of them end, or a value is removed that none
\* of them gets.
LEMMA FewerCalls ==
    ASSUME NEW k \in Connections, NEW cs \in [Calls -> Exchanges], NEW active \in SUBSET Grants,
           Proper(k, cs, active),
           NEW before \in [Calls -> Exchanges], NEW less \in SUBSET active,
           \A j \in Calls : before[j] = cs[j] \/ before[j].step = "idle"
                \/ /\ cs[j].step = "spending" /\ before[j].step = "saving"
                   /\ before[j].of = cs[j].of /\ before[j].subject = cs[j].subject,
           \A j \in Calls : before[j].step = "answering" => before[j].gets \in less
    PROVE  /\ \A v \in less : Issued(v, k)
           /\ \A i \in Calls :
                 /\ before[i].step # "idle" => Issued(before[i].of, k) /\ Found(before[i].subject)
                 /\ before[i].step = "answering" =>
                       /\ before[i].gets \in less
                       /\ before[i].gets # k.holds
                       /\ \A j \in Calls :
                             /\ before[j].step # "idle" => before[j].of # before[i].gets
                             /\ before[j].step = "answering" /\ j # i => before[j].gets # before[i].gets
<1>1. \A j \in Calls : before[j].step = "answering" => before[j] = cs[j]
    OBVIOUS
<1>2. \A j \in Calls : before[j].step # "idle" =>
          /\ cs[j].step # "idle" /\ before[j].of = cs[j].of /\ before[j].subject = cs[j].subject
    OBVIOUS
<1> QED
    BY <1>1, <1>2 DEF Proper

LEMMA SpendStep ==
    ASSUME Standing, NEW c \in Clients, NEW i \in Calls, SpendGrant(c, i) PROVE Standing'
<1>1. /\ calls[c][i].step = "spending" /\ calls[c][i] \in Exchanges
      /\ UNCHANGED <<client, minds, accounts, signUp>>
    BY ClientsAreProper DEF SpendGrant, NoAccounts
<1>2. CASE records' = [records EXCEPT ![c] = @ \ {calls[c][i].of}]
           /\ CallBecomes(c, i, [calls[c][i] EXCEPT !.step = "saving"])
  <2>1. PICK call \in Exchanges :
            /\ call = [calls[c][i] EXCEPT !.step = "saving"] /\ call.step = "saving"
            /\ call.of = calls[c][i].of /\ call.subject = calls[c][i].subject
      BY <1>1, SpendingBecomes
  <2>2. PICK cs \in [Calls -> Exchanges] :
            /\ calls' = [calls EXCEPT ![c] = cs]
            /\ \A j \in Calls : cs[j] = IF j = i THEN call ELSE calls[c][j]
      BY <1>2, <2>1, CallMoves
  <2>3. PICK less \in SUBSET records[c] : less = records[c] \ {call.of}
      OBVIOUS
  <2>4. \A j \in Calls : cs[j].step = "answering" => cs[j].gets \in less
    <3> SUFFICES ASSUME NEW j \in Calls, cs[j].step = "answering" PROVE cs[j].gets \in less
        OBVIOUS
    <3>1. j # i /\ cs[j] = calls[c][j]
        BY <2>1, <2>2
    <3>2. calls[c][j].gets \in records[c] /\ calls[c][i].of # calls[c][j].gets
        BY <1>1, <3>1, ClientsAreProper DEF Proper
    <3> QED
        BY <2>1, <2>3, <3>1, <3>2
  <2>5. \A j \in Calls : cs[j] = calls[c][j] \/ cs[j].step = "idle"
                \/ /\ calls[c][j].step = "spending" /\ cs[j].step = "saving"
                   /\ cs[j].of = calls[c][j].of /\ cs[j].subject = calls[c][j].subject
      BY <1>1, <2>1, <2>2
  <2>6. \/ client[c].holds = NoGrant
        \/ client[c].broken
        \/ client[c].holds \in less
        \/ \E j \in Calls : cs[j].step \in {"saving", "answering"} /\ cs[j].of = client[c].holds
    <3>1. CASE client[c].holds = call.of
        BY <2>1, <2>2, <3>1
    <3>2. ASSUME NEW j \in Calls, calls[c][j].step \in {"saving", "answering"},
                 calls[c][j].of = client[c].holds
          PROVE  cs[j].step \in {"saving", "answering"} /\ cs[j].of = client[c].holds
        BY <1>1, <2>2, <3>2
    <3> QED
        BY <2>3, <3>1, <3>2, ClientsAreProper DEF Proper
  <2>7. Proper(client[c], cs, less)
    <3>1. Proper(client[c], calls[c], records[c])
        BY ClientsAreProper
    <3> QED
        BY <2>4, <2>5, <2>6, <3>1, ClientsAreProper, FewerCalls DEF Proper
  <2>8. records' = [records EXCEPT ![c] = less] /\ less \in SUBSET Grants
      BY <1>2, <2>1, <2>3, ClientsAreProper
  <2> QED
      BY <1>1, <2>2, <2>7, <2>8, ClientsAreProper, KeptParts, ExchangeMoves
<1>3. CASE CallBecomes(c, i, NoCall) /\ UNCHANGED records
  <2>1. PICK cs \in [Calls -> Exchanges] :
            /\ calls' = [calls EXCEPT ![c] = cs]
            /\ \A j \in Calls : cs[j] = IF j = i THEN NoCall ELSE calls[c][j]
      BY <1>3, NoCallIsExchange, CallMoves
  <2>2. \A j \in Calls : cs[j].step = "answering" => cs[j].gets \in records[c]
      BY <2>1, NoCallIsExchange, ClientsAreProper DEF Proper
  <2>3. \A j \in Calls : cs[j] = calls[c][j] \/ cs[j].step = "idle"
      BY <2>1, NoCallIsExchange
  <2>4. \A j \in Calls : calls[c][j].step \in {"saving", "answering"} => cs[j] = calls[c][j]
      BY <1>1, <2>1
  <2>5. Proper(client[c], cs, records[c])
    <3>1. Proper(client[c], calls[c], records[c])
        BY ClientsAreProper
    <3> QED
        BY <2>2, <2>3, <2>4, <3>1, ClientsAreProper, FewerCalls DEF Proper
  <2> QED
      BY <1>1, <1>3, <2>1, <2>5, ClientsAreProper, KeptParts, ExchangeMoves
<1> QED
    BY <1>2, <1>3 DEF SpendGrant

LEMMA SaveStep ==
    ASSUME Standing, NEW c \in Clients, NEW i \in Calls, SaveGrant(c, i) PROVE Standing'
<1>1. /\ calls[c][i].step = "saving" /\ calls[c][i] \in Exchanges
      /\ client[c] \in Connections /\ UNCHANGED <<minds, accounts, signUp>>
      /\ Proper(client[c], calls[c], records[c])
    BY ClientsAreProper DEF SaveGrant, NoAccounts
<1>2. PICK n \in Nat : n = client[c].issued + 1 /\ n <= MaxIssued /\ client[c].issued \in Nat
  <2>1. client[c].issued \in Nat
      BY ClientsAreProper
  <2>2. client[c].issued < MaxIssued /\ MaxIssued \in Nat
      BY AccountsAssumption DEF SaveGrant
  <2> QED
      BY <2>1, <2>2
<1>3. PICK gets \in Grants : gets = Value(NextKind[calls[c][i].of.kind], n) /\ gets.n = n
  <2>1. calls[c][i].of \in Grants
      BY <1>1 DEF Proper, Issued
  <2> QED
      BY <2>1, NextIsGrant
<1>4. PICK k \in Connections : /\ k = [client[c] EXCEPT !.issued = n] /\ k.issued = n
                               /\ k.holds = client[c].holds /\ k.subject = client[c].subject
                               /\ k.broken = client[c].broken
    BY <1>1, IssuedBecomes
<1>5. PICK call \in Exchanges :
          /\ call = [calls[c][i] EXCEPT !.step = "answering", !.gets = gets]
          /\ call.step = "answering" /\ call.gets = gets
          /\ call.of = calls[c][i].of /\ call.subject = calls[c][i].subject
    BY <1>1, <1>3, SavingBecomes, Zenon
<1>6. PICK cs \in [Calls -> Exchanges] :
          /\ calls' = [calls EXCEPT ![c] = cs]
          /\ \A j \in Calls : cs[j] = IF j = i THEN call ELSE calls[c][j]
  <2>1. CallBecomes(c, i, call)
      BY <1>2, <1>3, <1>5 DEF SaveGrant
  <2> QED
      BY <2>1, CallMoves
<1>7. PICK active \in SUBSET Grants : active = records[c] \cup {gets}
    BY ClientsAreProper
<1>8. \A v : Issued(v, client[c]) => Issued(v, k) /\ v # gets
    BY <1>2, <1>3, <1>4 DEF Issued
<1>9. Issued(gets, k)
    BY <1>2, <1>3, <1>4 DEF Issued
<1>10. \A j \in Calls : /\ cs[j].step # "idle" => calls[c][j].step # "idle"
                        /\ cs[j].of = calls[c][j].of /\ cs[j].subject = calls[c][j].subject
                        /\ j # i => cs[j] = calls[c][j]
    BY <1>1, <1>5, <1>6
<1>11. \A j \in Calls : cs[j].step # "idle" =>
            Issued(cs[j].of, client[c]) /\ Issued(cs[j].of, k) /\ Found(cs[j].subject)
    BY <1>1, <1>8, <1>10 DEF Proper
<1>12. \A j \in Calls : cs[j].step = "answering" /\ j # i =>
            /\ calls[c][j].step = "answering" /\ cs[j].gets = calls[c][j].gets
            /\ cs[j].gets \in records[c] /\ Issued(cs[j].gets, client[c])
            /\ cs[j].gets # client[c].holds
    BY <1>1, <1>10 DEF Proper
<1>13. cs[i] = call
    BY <1>6
<1>14. ASSUME NEW j \in Calls, cs[j].step = "answering"
       PROVE  /\ cs[j].gets \in active /\ cs[j].gets # k.holds
              /\ \A l \in Calls : /\ cs[l].step # "idle" => cs[l].of # cs[j].gets
                                  /\ cs[l].step = "answering" /\ l # j => cs[l].gets # cs[j].gets
  <2>1. CASE j = i
    <3>1. cs[j].gets = gets
        BY <1>5, <1>13, <2>1
    <3>2. client[c].holds # gets
        BY <1>1, <1>3, <1>8, GrantFacts DEF Proper
    <3> QED
        BY <1>4, <1>7, <1>8, <1>11, <1>12, <2>1, <3>1, <3>2
  <2>2. CASE j # i
    <3>1. \A l \in Calls : cs[l].step # "idle" => cs[l].of # cs[j].gets
        BY <1>1, <1>10, <1>12, <1>14, <2>2 DEF Proper
    <3>2. \A l \in Calls : cs[l].step = "answering" /\ l # j => cs[l].gets # cs[j].gets
      <4> SUFFICES ASSUME NEW l \in Calls, cs[l].step = "answering", l # j
                   PROVE  cs[l].gets # cs[j].gets
          OBVIOUS
      <4>1. CASE l = i
          BY <1>5, <1>8, <1>12, <1>13, <1>14, <2>2, <4>1
      <4>2. CASE l # i
          BY <1>1, <1>12, <1>14, <2>2, <4>2 DEF Proper
      <4> QED
          BY <4>1, <4>2
    <3> QED
        BY <1>4, <1>7, <1>12, <1>14, <2>2, <3>1, <3>2
  <2> QED
      BY <2>1, <2>2
<1>15. \/ k.holds = NoGrant \/ k.broken \/ k.holds \in active
       \/ \E j \in Calls : cs[j].step \in {"saving", "answering"} /\ cs[j].of = k.holds
  <2>1. ASSUME NEW j \in Calls, calls[c][j].step \in {"saving", "answering"},
               calls[c][j].of = client[c].holds
        PROVE  cs[j].step \in {"saving", "answering"} /\ cs[j].of = k.holds
      BY <1>4, <1>5, <1>10, <1>13, <2>1
  <2> QED
      BY <1>1, <1>4, <1>7, <2>1 DEF Proper
<1>16. Proper(k, cs, active)
  <2>1. \A v \in active : Issued(v, k)
      BY <1>1, <1>7, <1>8, <1>9 DEF Proper
  <2>2. k.holds # NoGrant => Issued(k.holds, k)
      BY <1>1, <1>4, <1>8 DEF Proper
  <2>3. k.holds.kind \in {"code", "tokens"} => Found(k.subject)
      BY <1>1, <1>4 DEF Proper
  <2> QED
      BY <1>2, <1>4, <1>11, <1>14, <1>15, <2>1, <2>2, <2>3 DEF Proper
<1>17. client' = [client EXCEPT ![c] = k] /\ records' = [records EXCEPT ![c] = active]
  <2>1. client \in [Clients -> Connections]
      BY DEF Standing, AccountTypes
  <2> QED
      BY <1>2, <1>3, <1>4, <1>7, <2>1 DEF SaveGrant
<1> QED
    BY <1>1, <1>6, <1>16, <1>17, ExchangeMoves

LEMMA ReceiveStep ==
    ASSUME Standing, NEW c \in Clients, NEW i \in Calls, Receive(c, i) PROVE Standing'
<1>1. /\ calls[c][i].step = "answering" /\ calls[c][i] \in Exchanges
      /\ client[c] \in Connections /\ UNCHANGED <<records, minds, accounts, signUp>>
      /\ Proper(client[c], calls[c], records[c])
    BY ClientsAreProper DEF Receive, NoAccounts
<1>2. PICK gets \in Grants : gets = calls[c][i].gets /\ gets \in records[c]
    BY <1>1, ClientsAreProper DEF Proper
<1>3. PICK subject \in Subjects : subject = calls[c][i].subject /\ Found(subject)
    BY <1>1 DEF Proper, Exchanges
<1>4. PICK k \in Connections :
          /\ k = Answered(client[c], gets, subject)
          /\ k.holds = gets /\ k.subject = subject /\ k.issued = client[c].issued
  <2>1. client[c] \in Connections /\ gets \in Grants /\ subject \in Subjects
      BY <1>1, <1>2, <1>3
  <2> QED
      BY <2>1, HoldsBecomes
<1>5. PICK cs \in [Calls -> Exchanges] :
          /\ calls' = [calls EXCEPT ![c] = cs]
          /\ \A j \in Calls : cs[j] = IF j = i THEN NoCall ELSE calls[c][j]
    BY NoCallIsExchange, CallMoves DEF Receive
<1>6. \A j \in Calls : cs[j].step # "idle" => j # i /\ cs[j] = calls[c][j]
    BY <1>5, NoCallIsExchange
<1>7. Proper(k, cs, records[c])
  <2>1. \A v : Issued(v, client[c]) => Issued(v, k)
      BY <1>4 DEF Issued
  <2>2. \A v \in records[c] : Issued(v, k)
      BY <1>1, <2>1 DEF Proper
  <2>3. \A j \in Calls : cs[j].step # "idle" => Issued(cs[j].of, k) /\ Found(cs[j].subject)
      BY <1>1, <1>6, <2>1 DEF Proper
  <2>4. ASSUME NEW j \in Calls, cs[j].step = "answering"
        PROVE  /\ cs[j].gets \in records[c] /\ cs[j].gets # k.holds
               /\ \A l \in Calls : /\ cs[l].step # "idle" => cs[l].of # cs[j].gets
                                   /\ cs[l].step = "answering" /\ l # j => cs[l].gets # cs[j].gets
      BY <1>1, <1>2, <1>4, <1>6, <2>4 DEF Proper
  <2> QED
      BY <1>1, <1>2, <1>3, <1>4, <2>2, <2>3, <2>4 DEF Proper
<1>8. client' = [client EXCEPT ![c] = k]
    BY <1>2, <1>3, <1>4 DEF Receive, Answered
<1> QED
    BY <1>1, <1>5, <1>7, <1>8, ClientsAreProper, KeptParts, ExchangeMoves

-----------------------------------------------------------------------------
\* What is lost, or out of date, is broken.
LEMMA LossStep ==
    ASSUME Standing, NEW c \in Clients, NEW i \in Calls, AnswerLost(c, i) PROVE Standing'
<1>1. /\ calls[c][i].step = "answering" /\ client[c] \in Connections
      /\ UNCHANGED <<records, minds, accounts, signUp>>
      /\ Proper(client[c], calls[c], records[c])
    BY ClientsAreProper DEF AnswerLost, NoAccounts
<1>2. PICK lost \in BOOLEAN : lost = (client[c].broken \/ CutsShort(c, i))
    OBVIOUS
<1>3. PICK k \in Connections :
          /\ k = [client[c] EXCEPT !.broken = lost] /\ k.broken = lost
          /\ k.holds = client[c].holds /\ k.subject = client[c].subject
          /\ k.issued = client[c].issued
    BY <1>1, BrokenBecomes
<1>4. PICK cs \in [Calls -> Exchanges] :
          /\ calls' = [calls EXCEPT ![c] = cs]
          /\ \A j \in Calls : cs[j] = IF j = i THEN NoCall ELSE calls[c][j]
    BY NoCallIsExchange, CallMoves DEF AnswerLost
<1>5. \A j \in Calls : cs[j] = calls[c][j] \/ cs[j].step = "idle"
    BY <1>4, NoCallIsExchange
<1>6. \A j \in Calls : cs[j].step = "answering" => cs[j].gets \in records[c]
    BY <1>1, <1>5 DEF Proper
<1>7. \/ k.holds = NoGrant \/ k.broken \/ k.holds \in records[c]
      \/ \E j \in Calls : cs[j].step \in {"saving", "answering"} /\ cs[j].of = k.holds
  <2>1. CASE CutsShort(c, i)
      BY <1>2, <1>3, <2>1
  <2>2. CASE ~CutsShort(c, i)
    <3>1. ASSUME NEW j \in Calls, calls[c][j].step \in {"saving", "answering"},
                 calls[c][j].of = client[c].holds
          PROVE  cs[j] = calls[c][j]
        BY <1>4, <2>2, <3>1 DEF CutsShort
    <3> QED
        BY <1>1, <1>2, <1>3, <3>1 DEF Proper
  <2> QED
      BY <2>1, <2>2
<1>8. Proper(k, cs, records[c])
  <2>1. \A v : Issued(v, client[c]) => Issued(v, k)
      BY <1>3 DEF Issued
  <2>2. Proper(client[c], calls[c], records[c])
      BY <1>1
  <2>3. /\ \A v \in records[c] : Issued(v, client[c])
        /\ \A l \in Calls :
              /\ cs[l].step # "idle" => Issued(cs[l].of, client[c]) /\ Found(cs[l].subject)
              /\ cs[l].step = "answering" =>
                    /\ cs[l].gets \in records[c]
                    /\ cs[l].gets # client[c].holds
                    /\ \A j \in Calls :
                          /\ cs[j].step # "idle" => cs[j].of # cs[l].gets
                          /\ cs[j].step = "answering" /\ j # l => cs[j].gets # cs[l].gets
    <3>1. records[c] \in SUBSET Grants /\ calls[c] \in [Calls -> Exchanges]
        BY ClientsAreProper
    <3>2. \A j \in Calls : cs[j].step = "answering" => cs[j] = calls[c][j]
        BY <1>5
    <3>3. \A j \in Calls : cs[j].step # "idle" => cs[j] = calls[c][j] /\ calls[c][j].step # "idle"
        BY <1>5
    <3> QED
        BY <1>6, <2>2, <3>2, <3>3 DEF Proper
  <2> QED
      BY <1>3, <1>7, <2>1, <2>2, <2>3 DEF Proper
<1>9. client' = [client EXCEPT ![c] = k]
  <2>1. client \in [Clients -> Connections]
      BY DEF Standing, AccountTypes
  <2> QED
      BY <1>2, <1>3, <2>1 DEF AnswerLost
<1> QED
    BY <1>1, <1>4, <1>8, <1>9, ClientsAreProper, KeptParts, ExchangeMoves

LEMMA ExpiryStep ==
    ASSUME Standing, NEW c \in Clients, Expires(c) PROVE Standing'
<1>1. /\ client[c] \in Connections /\ UNCHANGED <<calls, minds, accounts, signUp>>
      /\ Proper(client[c], calls[c], records[c])
    BY ClientsAreProper DEF Expires, NoAccounts
<1>2. PICK k \in Connections :
          /\ k = [client[c] EXCEPT !.broken = TRUE] /\ k.broken
          /\ k.holds = client[c].holds /\ k.subject = client[c].subject
          /\ k.issued = client[c].issued
    BY <1>1, BrokenBecomes
<1>3. PICK less \in SUBSET records[c] : less = records[c] \ {client[c].holds}
    OBVIOUS
<1>4. \A j \in Calls : calls[c][j].step = "answering" => calls[c][j].gets \in less
    BY <1>1, <1>3 DEF Proper
<1>5. Proper(k, calls[c], less)
  <2>1. \A v : Issued(v, client[c]) => Issued(v, k)
      BY <1>2 DEF Issued
  <2> QED
      BY <1>1, <1>2, <1>3, <1>4, <2>1 DEF Proper
<1>6. /\ client' = [client EXCEPT ![c] = k]
      /\ records' = [records EXCEPT ![c] = less] /\ less \in SUBSET Grants
  <2>1. client \in [Clients -> Connections]
      BY DEF Standing, AccountTypes
  <2> QED
      BY <1>2, <1>3, <2>1, ClientsAreProper DEF Expires, DropHeld
<1> QED
    BY <1>1, <1>5, <1>6, ClientsAreProper, KeptParts, ExchangeMoves

\* A stop ends every call, and breaks only the exchanges it cut short.
LEMMA StopsStep == ASSUME Standing, Stops PROVE Standing'
<1>1. UNCHANGED <<minds, accounts, records>>
    BY DEF Stops
<1>2. ASSUME NEW c \in Clients
      PROVE  client'[c] \in Connections /\ Proper(client[c], calls[c], records[c])'
  <2>1. client[c] \in Connections /\ Proper(client[c], calls[c], records[c])
      BY ClientsAreProper
  <2>2. PICK cut \in BOOLEAN : cut = (client[c].broken \/ \E i \in Calls : CutsShort(c, i))
      OBVIOUS
  <2>3. PICK k \in Connections :
            /\ k = [client[c] EXCEPT !.broken = cut] /\ k.broken = cut
            /\ k.holds = client[c].holds /\ k.subject = client[c].subject
            /\ k.issued = client[c].issued
      BY <2>1, <2>2, BrokenBecomes
  <2>4. client'[c] = k
      BY <2>2, <2>3 DEF Stops
  <2>5. \A j \in Calls : calls'[c][j].step = "idle"
      BY NoCallIsExchange DEF Stops
  <2>6. k.holds = NoGrant \/ k.broken \/ k.holds \in records[c]
      BY <2>1, <2>2, <2>3 DEF Proper, CutsShort
  <2>7. \A v : Issued(v, client[c]) => Issued(v, k)
      BY <2>3 DEF Issued
  <2>8. \A subject : Found(subject) => Found(subject)'
      BY <1>1 DEF Found, Authenticates
  <2>9. /\ k.issued <= MaxIssued /\ \A v \in records[c] : Issued(v, k)
        /\ k.holds # NoGrant => Issued(k.holds, k)
        /\ k.holds.kind \in {"code", "tokens"} => Found(k.subject)
      BY <2>1, <2>3, <2>7 DEF Proper
  <2> QED
      BY <1>1, <2>4, <2>5, <2>6, <2>8, <2>9 DEF Proper
<1>3. client' \in [Clients -> Connections] /\ calls' \in [Clients -> [Calls -> Exchanges]]
    BY <1>2, NoCallIsExchange DEF Stops
<1>4. ClientsProper'
    BY <1>2 DEF ClientsProper
<1>6. PICK names : signUp \in [SignUps -> [stage : SignUpStages, username : names]]
    BY DEF Standing, AccountTypes
<1>7. \A s \in SignUps :
          /\ signUp'[s] \in [stage : SignUpStages, username : names]
          /\ signUp'[s].username = signUp[s].username
          /\ \/ signUp'[s].stage = signUp[s].stage
             \/ signUp'[s].stage = "refused" /\ signUp[s].stage # "idle"
  <2> TAKE s \in SignUps
  <2>1. signUp[s] \in [stage : SignUpStages, username : names]
      BY <1>6
  <2>2. signUp'[s] = IF signUp[s].stage \in {"confirmed", "refused", "idle"} THEN signUp[s]
                     ELSE [signUp[s] EXCEPT !.stage = "refused"]
      BY DEF Stops
  <2>3. CASE signUp[s].stage \in {"confirmed", "refused", "idle"}
      BY <2>1, <2>2, <2>3
  <2>4. CASE signUp[s].stage \notin {"confirmed", "refused", "idle"}
    <3> DEFINE ended == [signUp[s] EXCEPT !.stage = "refused"]
    <3>1. /\ ended \in [stage : SignUpStages, username : names]
          /\ ended.username = signUp[s].username /\ ended.stage = "refused"
        BY <2>1 DEF SignUpStages
    <3>2. signUp'[s] = ended /\ signUp[s].stage # "idle"
        BY <2>2, <2>4
    <3> HIDE DEF ended
    <3> QED
        BY <3>1, <3>2
  <2> QED
      BY <2>3, <2>4
<1>8. signUp' \in [SignUps -> [stage : SignUpStages, username : names]]
    BY <1>7 DEF Stops
<1>9. \A s \in SignUps : signUp'[s].stage # "idle" => signUp'[s].username \in Usernames
    BY <1>7 DEF Standing, AccountTypes
<1>10. SignUpsInOrder' /\ AccountsHaveMinds'
    BY <1>1, <1>7 DEF Standing, SignUpsInOrder, AccountsHaveMinds
<1>11. AccountTypes'
    BY <1>1, <1>3, <1>8, <1>9 DEF Standing, AccountTypes
<1> QED
    BY <1>4, <1>10, <1>11 DEF Standing

LEMMA AccountsStep == Standing /\ [AccountsNext]_accountVars => Standing'
<1> SUFFICES ASSUME Standing, [AccountsNext]_accountVars PROVE Standing'
    OBVIOUS
<1>1. CASE UNCHANGED accountVars
  <2>1. ClientsProper'
      BY <1>1, SignUpKeepsGrants DEF accountVars
  <2> QED
      BY <1>1, <2>1 DEF accountVars, Standing, AccountTypes, SignUpsInOrder, AccountsHaveMinds
<1>2. CASE Stops
    BY <1>2, StopsStep
<1>3. CASE \E s \in SignUps : \/ \E u \in Usernames : CheckUsername(s, u)
                              \/ InitializeMind(s) \/ Publish(s) \/ ReadBack(s)
    BY <1>3, SignUpStep
<1>4. ASSUME NEW c \in Clients, Authorize(c) PROVE Standing'
    BY <1>4, AuthorizeStep
<1>5. ASSUME NEW c \in Clients, Deny(c) \/ Revoke(c) PROVE Standing'
    BY <1>5, GiveUpStep
<1>6. ASSUME NEW c \in Clients, NEW i \in Calls,
             Present(c, i) \/ \E subject \in SignUps \cup {Operator} : SignIn(c, i, subject)
      PROVE  Standing'
    BY <1>6, PresentStep
<1>7. ASSUME NEW c \in Clients, NEW i \in Calls, SpendGrant(c, i) PROVE Standing'
    BY <1>7, SpendStep
<1>8. ASSUME NEW c \in Clients, NEW i \in Calls, SaveGrant(c, i) PROVE Standing'
    BY <1>8, SaveStep
<1>9. ASSUME NEW c \in Clients, NEW i \in Calls, Receive(c, i) PROVE Standing'
    BY <1>9, ReceiveStep
<1>10. ASSUME NEW c \in Clients, NEW i \in Calls, AnswerLost(c, i) PROVE Standing'
    BY <1>10, LossStep
<1>11. ASSUME NEW c \in Clients, Expires(c) PROVE Standing'
    BY <1>11, ExpiryStep
<1> QED
    BY <1>1, <1>2, <1>3, <1>4, <1>5, <1>6, <1>7, <1>8, <1>9, <1>10, <1>11 DEF AccountsNext

LEMMA StandingSuffices == Standing => GrantsStand
<1> SUFFICES ASSUME Standing PROVE GrantsStand
    OBVIOUS
<1>1. ASSUME NEW c \in Clients
      PROVE  /\ client[c].issued <= MaxIssued
             /\ \A v \in records[c] : v.kind \in DOMAIN NextKind /\ v.n \in 1 .. client[c].issued
  <2>1. DOMAIN NextKind = Kinds
      BY DEF NextKind, Kinds
  <2> QED
      BY <2>1, ClientsAreProper DEF Proper, Issued, Grants
<1>2. AccountsOK
    BY <1>1 DEF AccountsOK, Standing, AccountTypes
<1>3. GrantsSelectMinds
  <2> SUFFICES ASSUME NEW c \in Clients, client[c].holds.kind \in {"code", "tokens"}
               PROVE  /\ Authenticates(client[c].subject)
                      /\ client[c].subject # Operator => client[c].subject \in minds
      BY DEF GrantsSelectMinds
  <2>1. Authenticates(client[c].subject)
      BY ClientsAreProper DEF Proper, Found
  <2>2. \A u \in Usernames : accounts[u] # Unowned => accounts[u] \in minds
      BY DEF Standing, AccountsHaveMinds
  <2> QED
      BY <2>1, <2>2 DEF Authenticates
<1>4. GrantsOutliveRestarts
    BY ClientsAreProper DEF GrantsOutliveRestarts, IsQuiet, Active, Proper
<1>5. AccountsHaveMinds
    BY DEF Standing
<1> QED
    BY <1>2, <1>3, <1>4, <1>5 DEF GrantsStand

-----------------------------------------------------------------------------
\* Wherever sign-ups and exchanges stop, whoever signs up for the same name, and
\* though a client presents one value twice at once: an account has an initialized
\* Mind and the sign-up it was confirmed to; a grant is the operator's or names
\* such an account; and between calls it works, unless it expired or the exchange
\* of what its client holds was cut short after spending it (chatgpt_oauth.py,
\* accounts.py).
THEOREM GrantsAlwaysStand == AccountsSpec => []GrantsStand
<1>1. AccountsSpec => []Standing
    BY InitiallyStanding, AccountsStep, PTL DEF AccountsSpec
<1> QED
    BY <1>1, StandingSuffices, PTL
=============================================================================
