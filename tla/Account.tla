------------------------------ MODULE Account ------------------------------
(***************************************************************************)
(* The Xiaomi account (src/internal/xiaomi/client.go and qr.go, and the    *)
(* handlers of src/internal/server/api.go that use them).  Cloud calls     *)
(* renew the service token when it is missing or refused, Maintain renews  *)
(* it in time, and users log in, scan a code or log out meanwhile.         *)
(*                                                                         *)
(* c.authMu is held across the requests of an exchange, so it is a         *)
(* variable; q.mu and the store's lock guard single actions.  Abstracted:  *)
(* a service token is its number, 0 is "none"; what the cloud answers is   *)
(* free, being external.                                                   *)
(***************************************************************************)
EXTENDS Naturals, FiniteSets

CONSTANTS
    Tasks,      \* goroutines: a call, a handler, Maintain, a QR session
    NoTask,     \* authMu is free
    Users,
    NoUser,     \* no account: UserID and PassToken are empty
    QRLimit,    \* 4 sessions
    MaxTokens   \* bound: exchanges that succeed

ASSUME TaskAssumption == NoTask \notin Tasks
ASSUME UserAssumption == NoUser \notin Users
ASSUME TokenAssumption == MaxTokens \in Nat /\ QRLimit \in Nat

VARIABLES
    stored,     \* the Credentials in the store: user and token
    known,      \* the store has speakers of the account
    aged,       \* the token is 9 hours old
    issued,     \* how many tokens Xiaomi has issued
    cooling,    \* c.lastRefresh is less than a minute ago
    authMu,
    sessions,   \* q.sessions
    expired,    \* sessions whose expires is over
    over,       \* tasks whose context is done
    step, task, \* where each task stands, and its locals
    met,        \* history: sessions that a CancelAll has met
    gone        \* history: those of them a Logout followed

lasting == <<stored, known, aged, issued>>
codes == <<sessions, expired, over>>
history == <<met, gone>>
accountVars == <<lasting, cooling, authMu, codes, step, task, history>>

CallOps == {"call", "devices"}
RefreshOps == CallOps \cup {"maintain"}
LoginOps == {"login", "qr"}
TaskOps == RefreshOps \cup LoginOps \cup {"logout"}
Steps == {"idle", "send", "wire", "list", "lock", "exchange", "check", "save",
          "ask", "scan", "done"}
Holding(p) == step[p] \in {"exchange", "check", "save"}

Credentials(user, token) == [user |-> user, token |-> token]
CredentialRecords == [user : Users \cup {NoUser}, token : Nat]
Nobody == Credentials(NoUser, 0)

(* "base" is the snapshot an exchange starts from, "got" its result.       *)
Task(op) == [op |-> op, force |-> FALSE, tries |-> 0, base |-> Nobody, got |-> Nobody]

AccountInit ==
    /\ \E u \in Users : stored \in {Nobody, Credentials(u, 1)}
    /\ known \in BOOLEAN /\ aged \in BOOLEAN /\ (stored = Nobody => ~known)
    /\ issued = 1 /\ cooling = FALSE /\ authMu = NoTask
    /\ sessions = {} /\ expired = {} /\ over = {}
    /\ met = {} /\ gone = {}
    /\ step = [p \in Tasks |-> "idle"]
    /\ task = [p \in Tasks |-> Task("call")]

At(p, where) == step' = [step EXCEPT ![p] = where]
Starts(p, op) == step[p] = "idle" /\ task' = [task EXCEPT ![p] = Task(op)]

(***************************************************************************)
(* call: a snapshot, perhaps a refresh, and at most two requests.          *)
(***************************************************************************)

StartCall(p) ==
    /\ \E op \in CallOps : Starts(p, op)
    /\ At(p, IF stored.token = 0 THEN "lock" ELSE "send")
    /\ UNCHANGED <<lasting, cooling, authMu, codes, history>>

(* Each attempt reads the credentials again.                               *)
Send(p) ==
    /\ step[p] = "send"
    /\ task' = [task EXCEPT ![p].tries = @ + 1]
    /\ At(p, "wire")
    /\ UNCHANGED <<lasting, cooling, authMu, codes, history>>

(* Done, failed, or 401: the first one leads to a forced refresh.          *)
CloudAnswer(p) ==
    /\ step[p] = "wire"
    /\ \/ /\ At(p, IF task[p].op = "devices" THEN "list" ELSE "done")
          /\ UNCHANGED task
       \/ /\ At(p, "done")
          /\ UNCHANGED task
       \/ /\ task[p].tries = 1
          /\ task' = [task EXCEPT ![p].force = TRUE]
          /\ At(p, "lock")
    /\ UNCHANGED <<lasting, cooling, authMu, codes, history>>

(* The devices handler stores what it was told, whatever happened since.   *)
StoreDevices(p) ==
    /\ step[p] = "list"
    /\ known' \in {known, TRUE}
    /\ At(p, "done")
    /\ UNCHANGED <<stored, aged, issued, cooling, authMu, codes, task, history>>

(***************************************************************************)
(* refresh, Login and Logout: under authMu.                                *)
(***************************************************************************)

StartMaintain(p) ==
    /\ stored.user # NoUser
    /\ Starts(p, "maintain") /\ At(p, "lock")
    /\ UNCHANGED <<lasting, cooling, authMu, codes, history>>

AfterRefresh(p) == IF task[p].op = "maintain" THEN "done" ELSE "send"

TakeAuthLate(p) == authMu' = authMu     \* mutant: locked for the Update only
TakeAuth(p) == authMu' = p

BeginExchange(p) ==
    /\ TakeAuth(p)
    /\ task' = [task EXCEPT ![p].base = stored]
    /\ At(p, "exchange")

(* Nothing to do, too soon, no account, or an exchange.  A minute without  *)
(* another one begins even when there is no account.                       *)
RefreshBegins(p) ==
    /\ step[p] = "lock" /\ task[p].op \in RefreshOps /\ authMu = NoTask
    /\ LET lazy == ~task[p].force /\ stored.token # 0
       IN  \/ /\ lazy /\ (cooling \/ ~aged)
              /\ At(p, AfterRefresh(p))
              /\ UNCHANGED <<cooling, authMu, task>>
           \/ /\ ~lazy /\ cooling
              /\ At(p, "done")
              /\ UNCHANGED <<cooling, authMu, task>>
           \/ /\ ~(lazy /\ ~aged) /\ ~cooling
              /\ cooling' = TRUE
              /\ IF stored.user = NoUser
                 THEN At(p, "done") /\ UNCHANGED <<authMu, task>>
                 ELSE BeginExchange(p)
    /\ UNCHANGED <<lasting, codes, history>>

(* POST account/login and account/token; the browser may go away.          *)
StartLogin(p) ==
    /\ Starts(p, "login") /\ At(p, "lock")
    /\ UNCHANGED <<lasting, cooling, authMu, codes, history>>

BrowserLeaves(p) ==
    /\ task[p].op = "login" /\ step[p] \in {"lock", "exchange", "check", "save"}
    /\ over' = over \cup {p}
    /\ UNCHANGED <<lasting, cooling, authMu, sessions, expired, step, task, history>>

LoginBegins(p) ==
    /\ step[p] = "lock" /\ task[p].op \in LoginOps /\ authMu = NoTask
    /\ BeginExchange(p)
    /\ UNCHANGED <<lasting, cooling, codes, history>>

(* A task that ends: "defer c.authMu.Unlock()", and a QR session ends its  *)
(* context.                                                                *)
KeepAuth(p) == authMu' = authMu         \* mutant: an error path keeps the lock
ReleaseAuth(p) == authMu' = IF authMu = p THEN NoTask ELSE authMu
EndSession(p) == over' = IF task[p].op = "qr" THEN over \cup {p} ELSE over

ExchangeEnds(p) ==
    /\ step[p] = "exchange"
    /\ \/ /\ ReleaseAuth(p) /\ EndSession(p) /\ At(p, "done")
          /\ UNCHANGED <<issued, task>>
       \/ /\ issued < MaxTokens
          /\ issued' = issued + 1
          /\ \E u \in IF task[p].op \in LoginOps THEN Users ELSE {task[p].base.user} :
               task' = [task EXCEPT ![p].got = Credentials(u, issued + 1)]
          /\ At(p, IF task[p].op \in LoginOps THEN "check" ELSE "save")
          /\ UNCHANGED <<authMu, over>>
    /\ UNCHANGED <<stored, known, aged, cooling, sessions, expired, history>>

(* Only Login asks its context again once the exchange is over.            *)
NotAsked(p) == TRUE                     \* mutant: ctx.Err() is not looked at
StillWanted(p) == p \notin over

CheckContext(p) ==
    /\ step[p] = "check"
    /\ IF StillWanted(p)
       THEN At(p, "save") /\ UNCHANGED <<authMu, over>>
       ELSE At(p, "done") /\ ReleaseAuth(p) /\ EndSession(p)
    /\ UNCHANGED <<lasting, cooling, sessions, expired, task, history>>

(* Store.Update, which may fail.                                           *)
Save(p) ==
    /\ step[p] = "save"
    /\ \/ /\ stored' = task[p].got /\ aged' = FALSE
          /\ At(p, IF task[p].op \in LoginOps THEN "done" ELSE AfterRefresh(p))
       \/ /\ UNCHANGED <<stored, aged>>
          /\ At(p, "done")
    /\ ReleaseAuth(p) /\ EndSession(p)
    /\ UNCHANGED <<known, issued, cooling, sessions, expired, task, history>>

(* DELETE account: first every session, then the credentials.              *)
ForgetSessions == over' = over          \* mutant: dropped, not cancelled
CancelSessions == over' = over \cup sessions

CancelAll(p) ==
    /\ Starts(p, "logout")
    /\ CancelSessions /\ sessions' = {}
    /\ met' = met \cup sessions
    /\ At(p, "lock")
    /\ UNCHANGED <<lasting, cooling, authMu, expired, gone>>

Logout(p) ==
    /\ step[p] = "lock" /\ task[p].op = "logout" /\ authMu = NoTask
    /\ \/ /\ stored' = Nobody /\ known' = FALSE /\ aged' = TRUE
          /\ gone' = gone \cup met
       \/ UNCHANGED <<stored, known, aged, history>>
    /\ At(p, "done")
    /\ UNCHANGED <<issued, cooling, authMu, codes, task, met>>

(***************************************************************************)
(* The QR sessions.                                                        *)
(***************************************************************************)

(* Start sweeps what has expired, then counts; q.mu is free again while    *)
(* it asks Xiaomi for a code.                                              *)
StartQR(p) ==
    /\ Starts(p, "qr")
    /\ sessions' = sessions \ expired /\ over' = over \cup (sessions \cap expired)
    /\ At(p, IF Cardinality(sessions \ expired) >= QRLimit THEN "done" ELSE "ask")
    /\ UNCHANGED <<lasting, cooling, authMu, expired, history>>

InsertSession(p) ==
    /\ step[p] = "ask"
    /\ \/ At(p, "done") /\ UNCHANGED sessions
       \/ At(p, "scan") /\ sessions' = sessions \cup {p}
    /\ UNCHANGED <<lasting, cooling, authMu, expired, over, task, history>>

(* poll ends with its context or when the code is void, and goes on to     *)
(* Login when the user has confirmed.                                      *)
PollScan(p) ==
    /\ step[p] = "scan"
    /\ \/ At(p, "done") /\ EndSession(p)
       \/ p \notin over /\ At(p, "lock") /\ UNCHANGED over
    /\ UNCHANGED <<lasting, cooling, authMu, sessions, expired, task, history>>

SessionExpires(p) ==
    /\ task[p].op = "qr" /\ step[p] \notin {"idle", "ask"} /\ p \notin expired
    /\ expired' = expired \cup {p} /\ over' = over \cup {p}
    /\ UNCHANGED <<lasting, cooling, authMu, sessions, step, task, history>>

(* Time passes: a minute since the last exchange, 9 hours of a token.      *)
Cool == cooling /\ cooling' = FALSE /\
        UNCHANGED <<lasting, authMu, codes, step, task, history>>
TokenAges == ~aged /\ stored.token # 0 /\ aged' = TRUE /\
             UNCHANGED <<stored, known, issued, cooling, authMu, codes, step, task, history>>

(***************************************************************************)
(* The specification.  Requests to the cloud end (their clients have       *)
(* timeouts), so no holder keeps authMu for ever, and a sync.Mutex lets    *)
(* its oldest waiter in.  Users do what they like.                         *)
(***************************************************************************)

Begins(p) == RefreshBegins(p) \/ LoginBegins(p) \/ Logout(p)
GoesOn(p) ==
    \/ Send(p) \/ CloudAnswer(p) \/ StoreDevices(p) \/ Begins(p)
    \/ ExchangeEnds(p) \/ CheckContext(p) \/ Save(p)
    \/ InsertSession(p) \/ PollScan(p)
UserActs(p) ==
    \/ StartCall(p) \/ StartMaintain(p) \/ StartLogin(p) \/ CancelAll(p)
    \/ StartQR(p) \/ BrowserLeaves(p)

AccountNext ==
    \/ \E p \in Tasks : UserActs(p) \/ GoesOn(p) \/ SessionExpires(p)
    \/ Cool \/ TokenAges

AccountSpec == AccountInit /\ [][AccountNext]_accountVars

AccountFairness ==
    \A p \in Tasks : WF_accountVars(GoesOn(p)) /\ SF_accountVars(Begins(p))

(***************************************************************************)
(* Properties.                                                             *)
(***************************************************************************)

AccountTypeOK ==
    /\ stored \in CredentialRecords
    /\ known \in BOOLEAN /\ aged \in BOOLEAN /\ cooling \in BOOLEAN
    /\ issued \in Nat /\ authMu \in Tasks \cup {NoTask}
    /\ sessions \subseteq Tasks /\ expired \subseteq Tasks
    /\ over \subseteq Tasks /\ met \subseteq Tasks /\ gone \subseteq Tasks
    /\ step \in [Tasks -> Steps]
    /\ task \in [Tasks -> [op : TaskOps, force : BOOLEAN, tries : Nat,
                           base : CredentialRecords, got : CredentialRecords]]

Stores(p) == step[p] = "save" /\ step'[p] # "save" /\ stored' # stored

(* After DELETE account (api.go:274-282) the account stays away: neither a *)
(* renewal that was under way nor a QR session that CancelAll met brings   *)
(* it back, whichever of them was already past its exchange.  Only a login *)
(* that CancelAll did not meet does.                                       *)
LogoutHolds ==
    [][\A p \in Tasks : Stores(p) =>
         /\ p \notin gone
         /\ stored.user = NoUser => task[p].op \in LoginOps]_accountVars

(* What an exchange stores (client.go:179 and 204) replaces the very       *)
(* credentials it started from: no renewal, however slow, overwrites a     *)
(* newer login, a newer token or a logout.                                 *)
CredentialsMoveOn ==
    [][\A p \in Tasks : Stores(p) => stored = task[p].base]_accountVars

(* Every call, login, logout and QR session ends: authMu comes back on     *)
(* each path.                                                              *)
AccountTasksEnd == \A p \in Tasks : step[p] # "idle" ~> step[p] = "done"

(***************************************************************************)
(* The inductive invariant behind the action properties.                   *)
(***************************************************************************)

(* A login is past its last look at its context only if no Logout had      *)
(* ended that; a renewal is of an account.                                 *)
Licensed(p) ==
    /\ step[p] = "save" => p \notin gone
    /\ Holding(p) /\ task[p].op \notin LoginOps => task[p].base.user # NoUser

AccountInv ==
    /\ AccountTypeOK
    /\ \A p \in Tasks : Holding(p) => authMu = p /\ task[p].base = stored
    /\ \A p \in Tasks : Licensed(p)
    /\ \A p \in over \cup sessions \cup gone : task[p].op \in LoginOps /\ step[p] # "idle"
    /\ gone \subseteq met /\ met \subseteq over
    /\ \A p \in Tasks : step[p] \in {"ask", "scan", "check"} => task[p].op \in LoginOps
=============================================================================
