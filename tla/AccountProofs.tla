---------------------------- MODULE AccountProofs ----------------------------
(***************************************************************************)
(* Proofs about Account, for any number of tasks, users, sessions and      *)
(* tokens.                                                                 *)
(***************************************************************************)
EXTENDS Account, TLAPS

LEMMA NobodyType == Nobody \in CredentialRecords
BY DEF Nobody, Credentials, CredentialRecords

LEMMA TaskType ==
    ASSUME NEW op \in TaskOps
    PROVE  Task(op) \in [op : TaskOps, force : BOOLEAN, tries : Nat,
                         base : CredentialRecords, got : CredentialRecords]
BY NobodyType DEF Task

LEMMA InitInv == AccountInit => AccountInv
<1> SUFFICES ASSUME AccountInit PROVE AccountInv
  OBVIOUS
<1>1. AccountTypeOK
  <2>1. stored \in CredentialRecords
    BY NobodyType DEF AccountInit, Credentials, CredentialRecords
  <2>2. step \in [Tasks -> Steps]
    BY DEF AccountInit, Steps
  <2>3. task \in [Tasks -> [op : TaskOps, force : BOOLEAN, tries : Nat,
                            base : CredentialRecords, got : CredentialRecords]]
    BY TaskType DEF AccountInit, TaskOps, RefreshOps, CallOps
  <2> QED
    BY <2>1, <2>2, <2>3 DEF AccountInit, AccountTypeOK
<1> QED
  BY <1>1 DEF AccountInit, AccountInv, Holding, Licensed

(***************************************************************************)
(* Each action keeps the invariant.                                        *)
(***************************************************************************)

LEMMA UserStep ==
    ASSUME AccountInv, NEW p \in Tasks, UserActs(p)
    PROVE  AccountInv'
<1> USE DEF AccountInv, AccountTypeOK, Holding, Licensed, lasting, codes, history,
            At, Starts, Steps
<1>0. /\ \A op \in TaskOps :
            Task(op) \in [op : TaskOps, force : BOOLEAN, tries : Nat,
                          base : CredentialRecords, got : CredentialRecords]
      /\ \A op : Task(op).op = op
  BY TaskType DEF Task
<1>1. CASE StartCall(p)
  BY <1>0, <1>1 DEF StartCall, CallOps, LoginOps, TaskOps, RefreshOps
<1>2. CASE StartMaintain(p)
  BY <1>0, <1>2 DEF StartMaintain, LoginOps, TaskOps, RefreshOps
<1>3. CASE StartLogin(p)
  BY <1>0, <1>3 DEF StartLogin, LoginOps, TaskOps
<1>4. CASE CancelAll(p)
  BY <1>0, <1>4 DEF CancelAll, CancelSessions, LoginOps, TaskOps
<1>5. CASE StartQR(p)
  BY <1>0, <1>5 DEF StartQR, LoginOps, TaskOps
<1>6. CASE BrowserLeaves(p)
  BY <1>6 DEF BrowserLeaves, LoginOps
<1> QED
  BY <1>1, <1>2, <1>3, <1>4, <1>5, <1>6 DEF UserActs

(* A task that neither has authMu nor takes it, and is no session's, goes  *)
(* on or ends.                                                             *)
LEMMA QuietStep ==
    ASSUME AccountInv, NEW p \in Tasks, ~Holding(p),
           NEW where \in {"send", "wire", "list", "lock", "done"}, At(p, where),
           \/ UNCHANGED task
           \/ task' = [task EXCEPT ![p].tries = @ + 1]
           \/ task' = [task EXCEPT ![p].force = TRUE],
           UNCHANGED <<stored, aged, issued, authMu, codes, history>>,
           known' \in BOOLEAN, cooling' \in BOOLEAN
    PROVE  AccountInv'
<1> USE DEF AccountInv, AccountTypeOK, Holding, Licensed, codes, history, At, Steps
<1>1. task' \in [Tasks -> [op : TaskOps, force : BOOLEAN, tries : Nat,
                          base : CredentialRecords, got : CredentialRecords]]
  <2>1. task[p].tries + 1 \in Nat
    OBVIOUS
  <2>2. CASE task' = [task EXCEPT ![p].tries = @ + 1]
    BY <2>1, <2>2
  <2>3. CASE task' = [task EXCEPT ![p].force = TRUE]
    BY <2>3
  <2> QED
    BY <2>2, <2>3
<1>2. \A q \in Tasks : task'[q].op = task[q].op /\ task'[q].base = task[q].base
  OBVIOUS
<1>3. \A q \in Tasks : step'[q] = step[q] \/ (q = p /\ step'[q] = where)
  OBVIOUS
<1>4. step' \in [Tasks -> Steps]
  OBVIOUS
<1> QED
  BY <1>1, <1>2, <1>3, <1>4

LEMMA TaskStep ==
    ASSUME AccountInv, NEW p \in Tasks, GoesOn(p) \/ SessionExpires(p)
    PROVE  AccountInv'
<1> USE UserAssumption, TaskAssumption
    DEF AccountInv, AccountTypeOK, Holding, Licensed, lasting, codes, history, At, Steps
<1>1. CASE Send(p)
  BY <1>1, QuietStep DEF Send
<1>2. CASE CloudAnswer(p)
  <2>1. ~Holding(p) /\ UNCHANGED <<lasting, cooling, authMu, codes, history>>
    BY <1>2 DEF CloudAnswer
  <2>2. CASE At(p, IF task[p].op = "devices" THEN "list" ELSE "done") /\ UNCHANGED task
    <3>1. At(p, "list") \/ At(p, "done")
      BY <2>2
    <3> QED
      BY <2>1, <2>2, <3>1, QuietStep
  <2>3. CASE At(p, "done") /\ UNCHANGED task
    BY <2>1, <2>3, QuietStep
  <2>4. CASE task' = [task EXCEPT ![p].force = TRUE] /\ At(p, "lock")
    BY <2>1, <2>4, QuietStep
  <2> QED
    BY <1>2, <2>2, <2>3, <2>4 DEF CloudAnswer
<1>3. CASE StoreDevices(p)
  BY <1>3, QuietStep DEF StoreDevices
<1>4. CASE RefreshBegins(p)
  <2>1. step[p] = "lock" /\ authMu = NoTask /\ UNCHANGED <<lasting, codes, history>>
    BY <1>4 DEF RefreshBegins
  <2>2. CASE UNCHANGED <<authMu, task>>
    <3>1. At(p, AfterRefresh(p)) => At(p, "done") \/ At(p, "send")
      BY DEF AfterRefresh
    <3>2. (At(p, "done") \/ At(p, AfterRefresh(p)) \/ BeginExchange(p)) /\ cooling' \in BOOLEAN
      BY <1>4 DEF RefreshBegins
    <3>3. ~BeginExchange(p)
      BY <2>1, <2>2 DEF BeginExchange, TakeAuth
    <3> QED
      BY <2>1, <2>2, <3>1, <3>2, <3>3, QuietStep
  <2>3. CASE stored.user # NoUser /\ BeginExchange(p) /\ cooling' = TRUE
    BY <2>1, <2>3 DEF BeginExchange, TakeAuth
  <2> QED
    BY <1>4, <2>2, <2>3 DEF RefreshBegins
<1>5. CASE LoginBegins(p)
  BY <1>5 DEF LoginBegins, BeginExchange, TakeAuth
<1>6. CASE Logout(p)
  BY <1>6, NobodyType DEF Logout, LoginOps
<1>7. CASE ExchangeEnds(p)
  <2>1. step[p] = "exchange" /\ authMu = p /\ task[p].base = stored
    BY <1>7 DEF ExchangeEnds
  <2>2. UNCHANGED <<stored, known, aged, cooling, sessions, expired, history>>
    BY <1>7 DEF ExchangeEnds
  <2>3. CASE ReleaseAuth(p) /\ EndSession(p) /\ At(p, "done") /\ UNCHANGED <<issued, task>>
    BY <2>1, <2>2, <2>3 DEF ReleaseAuth, EndSession, LoginOps
  <2>4. CASE /\ issued' = issued + 1 /\ UNCHANGED <<authMu, over>>
             /\ \E u \in IF task[p].op \in LoginOps THEN Users ELSE {task[p].base.user} :
                  task' = [task EXCEPT ![p].got = Credentials(u, issued + 1)]
             /\ At(p, IF task[p].op \in LoginOps THEN "check" ELSE "save")
    <3>1. PICK u \in IF task[p].op \in LoginOps THEN Users ELSE {task[p].base.user} :
            task' = [task EXCEPT ![p].got = Credentials(u, issued + 1)]
      BY <2>4
    <3>2. Credentials(u, issued + 1) \in CredentialRecords
      BY <3>1 DEF Credentials, CredentialRecords
    <3>3. task[p].op \notin LoginOps => p \notin over
      BY DEF LoginOps
    <3> QED
      BY <2>1, <2>2, <2>4, <3>1, <3>2, <3>3
  <2> QED
    BY <1>7, <2>3, <2>4 DEF ExchangeEnds
<1>8. CASE CheckContext(p)
  BY <1>8 DEF CheckContext, ReleaseAuth, EndSession, StillWanted, LoginOps
<1>9. CASE Save(p)
  <2>1. step[p] = "save" /\ authMu = p /\ authMu' = NoTask /\ EndSession(p)
    BY <1>9 DEF Save, ReleaseAuth
  <2>2. UNCHANGED <<known, issued, cooling, sessions, expired, task, history>>
    BY <1>9 DEF Save
  <2>3. stored' \in CredentialRecords /\ aged' \in BOOLEAN
    <3>1. task[p].got \in CredentialRecords
      OBVIOUS
    <3> QED
      BY <1>9, <3>1 DEF Save
  <2>4. At(p, "done") \/ At(p, "send")
    BY <1>9 DEF Save, AfterRefresh
  <2>5. \A q \in Tasks : Holding(q) => q = p
    BY <2>1
  <2>6. over' \subseteq Tasks /\ over \subseteq over'
    BY <2>1 DEF EndSession
  <2>7. \A q \in over' : q \in over \/ (q = p /\ task[p].op \in LoginOps)
    BY <2>1 DEF EndSession, LoginOps
  <2>8. \A q \in Tasks : IF q = p THEN step'[q] \in {"send", "done"} ELSE step'[q] = step[q]
    BY <2>4
  <2>9. AccountTypeOK'
    BY <2>1, <2>2, <2>3, <2>4, <2>6
  <2>10. \A q \in Tasks : ~Holding(q)'
    BY <2>5, <2>8
  <2> QED
    BY <2>2, <2>6, <2>7, <2>8, <2>9, <2>10
<1>10. CASE InsertSession(p)
  BY <1>10 DEF InsertSession
<1>11. CASE PollScan(p)
  BY <1>11 DEF PollScan, EndSession, LoginOps
<1>12. CASE SessionExpires(p)
  BY <1>12 DEF SessionExpires, LoginOps
<1> QED
  BY <1>1, <1>2, <1>3, <1>4, <1>5, <1>6, <1>7, <1>8, <1>9, <1>10, <1>11, <1>12
  DEF GoesOn, Begins

LEMMA NextInv == AccountInv /\ [AccountNext]_accountVars => AccountInv'
<1> SUFFICES ASSUME AccountInv, [AccountNext]_accountVars PROVE AccountInv'
  OBVIOUS
<1> USE DEF AccountInv, AccountTypeOK, Holding, Licensed, lasting, codes, history
<1>1. CASE Cool
  BY <1>1 DEF Cool
<1>2. CASE TokenAges
  BY <1>2 DEF TokenAges
<1>3. CASE UNCHANGED accountVars
  BY <1>3 DEF accountVars
<1> QED
  BY <1>1, <1>2, <1>3, UserStep, TaskStep DEF AccountNext

(* Whoever is in an exchange has authMu, and the credentials in the store  *)
(* are those the exchange started from.                                    *)
THEOREM Exclusive == AccountSpec => []AccountInv
BY InitInv, NextInv, PTL DEF AccountSpec

(***************************************************************************)
(* What is stored.                                                         *)
(***************************************************************************)

(* No renewal and no login overwrites credentials that are newer than the  *)
(* ones it started from.                                                   *)
THEOREM NothingIsOverwritten == AccountSpec => CredentialsMoveOn
<1>1. AccountInv /\ [AccountNext]_accountVars =>
        [\A p \in Tasks : Stores(p) => stored = task[p].base]_accountVars
  BY DEF AccountInv, Stores, Holding
<1> QED
  BY <1>1, Exclusive, PTL DEF AccountSpec, CredentialsMoveOn

(* A Logout is not undone by what was under way when it was asked for.     *)
THEOREM LogoutIsKept == AccountSpec => LogoutHolds
<1>1. AccountInv /\ [AccountNext]_accountVars =>
        [\A p \in Tasks : Stores(p) =>
           /\ p \notin gone
           /\ stored.user = NoUser => task[p].op \in LoginOps]_accountVars
  BY DEF AccountInv, Stores, Holding, Licensed
<1> QED
  BY <1>1, Exclusive, PTL DEF AccountSpec, LogoutHolds
=============================================================================
