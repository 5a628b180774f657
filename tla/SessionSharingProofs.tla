------------------------- MODULE SessionSharingProofs -------------------------
(***************************************************************************)
(* The files this application shares with bmcweb only ever hold sessions   *)
(* that bmcweb made, each in the file of its storage type, for any number  *)
(* of threads, users, requests and restarts.  FilesHoldLogins alone is not *)
(* inductive: what a commit writes depends on what the store holds.        *)
(* LoginsInv adds that, and it is kept because restore() records the file  *)
(* a session came from and Basic sessions are marked SINGLE_REQUEST.       *)
(* MutexInv says that who is inside of the store holds its mutex, which    *)
(* SessionTypeOK states, and FreshInv why a session that is accepted out   *)
(* of the store is not an idle one.                                        *)
(***************************************************************************)
EXTENDS SessionSharing, FiniteSetTheorems, TLAPS

\* The two storages that have a file.
LEMMA StorageTypesAre ==
    StorageTypes = {"configLongTermStorage", "configCurrentBmcSession"}
  BY DEF StorageTypes, Storages

\* Whatever is in a file after a write was put there by this write.
LEMMA OverwriteHolds ==
  ASSUME NEW f, NEW S
  PROVE  Overwrite(f, S).sessions \in {S, {}}
  BY DEF Overwrite, Json, Garbled

\* NoSession is a well-formed record, which Known tells from a session.
LEMMA NoSessionKind == NoSession \in Session
  BY StorageTypesAre DEF NoSession, Session, Storages

\* The first files are bmcweb's, and the store is empty.
LEMMA LoginsInvInit == Init => LoginsInv
  BY SessionAssumption, StorageTypesAre
  DEF Init, LoginsInv, FilesHoldLogins, Known

\* The steps that leave store, files and bmcweb alone.
LEMMA LoginsInvStutter ==
  ASSUME LoginsInv, UNCHANGED <<files, authTokens, bmcweb, loggedOut>>,
         now' \in Int
  PROVE  LoginsInv'
  BY DEF LoginsInv, FilesHoldLogins, Known

\* readData of one file adds what bmcweb has written there.
LEMMA ReadFileKeeps ==
  ASSUME LoginsInv, NEW w \in Workers, NEW k \in DOMAIN Storages, ReadFile(w, k)
  PROVE  LoginsInv'
<1> DEFINE s == Storages[k]
<1>1. s \in StorageTypes
  BY DEF StorageTypes
<1>2. authTokens' \in {Restored(s), authTokens}
      /\ UNCHANGED <<files, bmcweb, loggedOut, now>>
  BY DEF ReadFile, externalVars
<1>3. Restored(s) \in [AllTokens -> Session \cup {NoSession}]
  BY <1>1 DEF LoginsInv, Restored, Session
<1>4. ASSUME NEW t \in AllTokens, Restored(s)[t] # authTokens[t]
      PROVE  /\ Restored(s)[t].storageType = s
             /\ t \in bmcweb[s] \cup loggedOut[s]
  BY <1>1, <1>4 DEF Restored, LoginsInv, FilesHoldLogins
<1> QED
  BY <1>2, <1>3, <1>4 DEF LoginsInv, FilesHoldLogins, Known

\* commit() truncates a file and writes what may be written of its type.
LEMMA CommitKeeps ==
  ASSUME LoginsInv, NEW w \in Workers, CommitOpen(w) \/ CommitWrite(w)
  PROVE  LoginsInv'
<1> DEFINE p == Storages[worker[w].out]
<1>1. UNCHANGED <<authTokens, bmcweb, loggedOut, now>>
  BY DEF CommitOpen, CommitWrite, storeVars, externalVars
<1>2. PICK g : files' = [files EXCEPT ![p] = g]
               /\ g.sessions \in {populateSessions(p), {}}
  <2>1. CASE CommitOpen(w)
    <3>1. files' = [files EXCEPT ![p] = Garbled(0)] /\ Garbled(0).sessions = {}
      BY <2>1 DEF CommitOpen, Garbled
    <3> QED BY <3>1
  <2>2. CASE CommitWrite(w)
    <3>1. files' = [files EXCEPT ![p] = Overwrite(files[p], populateSessions(p))]
      BY <2>2 DEF CommitWrite
    <3> QED BY <3>1, OverwriteHolds
  <2> QED BY <2>1, <2>2
<1>3. ASSUME NEW s \in StorageTypes
      PROVE  populateSessions(s) \subseteq bmcweb[s] \cup loggedOut[s]
  BY DEF populateSessions, LoginsInv
<1>4. files' = [s \in StorageTypes |-> files'[s]]
  BY <1>2 DEF LoginsInv
<1>5. ASSUME NEW s \in StorageTypes
      PROVE  files'[s] = IF s = p THEN g ELSE files[s]
  BY <1>2 DEF LoginsInv
<1>6. FilesHoldLogins'
  BY <1>1, <1>2, <1>3, <1>5 DEF FilesHoldLogins, LoginsInv
<1> QED
  BY <1>1, <1>4, <1>6 DEF LoginsInv, Known

\* The sweep and a login by token end sessions or renew their time.
LEMMA LoginByTokenKeeps ==
  ASSUME LoginsInv, NEW w \in Workers, LoginByToken(w)
  PROVE  LoginsInv'
<1> DEFINE t0 == Head(worker[w].creds).token
           Renewed == [Swept EXCEPT ![t0].lastUpdated = now]
<1>1. UNCHANGED <<files, bmcweb, loggedOut, now>>
  BY DEF LoginByToken, externalVars
<1>2. Swept \in [AllTokens -> Session \cup {NoSession}]
  BY DEF LoginsInv, Swept
<1>3. \/ authTokens' = Swept
      \/ authTokens' = Renewed /\ Swept[t0] # NoSession
  BY DEF LoginByToken
<1>4. ASSUME NEW t \in AllTokens
      PROVE  Swept[t] \in {authTokens[t], NoSession}
  BY DEF Swept
<1>5. CASE authTokens' = Swept
  BY <1>1, <1>2, <1>4, <1>5 DEF LoginsInv, FilesHoldLogins, Known
<1>6. CASE authTokens' = Renewed /\ Swept[t0] # NoSession
  <2>1. ASSUME NEW t \in AllTokens
        PROVE  Renewed[t] = IF t = t0 THEN [Swept[t] EXCEPT !.lastUpdated = now]
                            ELSE Swept[t]
    BY <1>2
  <2>2. ASSUME NEW r \in Session
        PROVE  /\ [r EXCEPT !.lastUpdated = now] \in Session
               /\ [r EXCEPT !.lastUpdated = now].storageType = r.storageType
               /\ [r EXCEPT !.lastUpdated = now].persistence = r.persistence
    BY DEF Session, LoginsInv
  <2>3. Renewed \in [AllTokens -> Session \cup {NoSession}]
    BY <1>2, <2>1, <2>2, NoSessionKind
  <2>4. ASSUME NEW t \in AllTokens, Renewed[t] # NoSession,
               Renewed[t].persistence # "SINGLE_REQUEST"
        PROVE  t \in bmcweb[Renewed[t].storageType]
                        \cup loggedOut[Renewed[t].storageType]
    <3>1. Swept[t] # NoSession /\ Swept[t] \in Session
      BY <1>2, <1>6, <2>1, <2>4
    <3>2. /\ Renewed[t].storageType = Swept[t].storageType
          /\ Renewed[t].persistence = Swept[t].persistence
      BY <2>1, <2>2, <3>1
    <3>3. Swept[t] = authTokens[t]
      BY <1>4, <3>1
    <3> QED BY <2>4, <3>1, <3>2, <3>3 DEF LoginsInv, Known
  <2> QED BY <1>1, <1>6, <2>3, <2>4 DEF LoginsInv, FilesHoldLogins, Known
<1> QED BY <1>3, <1>5, <1>6

\* Basic authentication stores a session of a single request.
LEMMA BasicAuthKeeps ==
  ASSUME LoginsInv, NEW w \in Workers, BasicAuth(w)
  PROVE  LoginsInv'
<1>1. UNCHANGED <<files, bmcweb, loggedOut, now>>
  BY DEF BasicAuth, externalVars
<1>2. CASE UNCHANGED authTokens
  BY <1>1, <1>2, LoginsInvStutter DEF LoginsInv
<1>3. ASSUME NEW t \in BasicTokens,
             authTokens' = [authTokens EXCEPT ![t] =
                    [lastUpdated |-> now, persistence |-> "SINGLE_REQUEST",
                     storageType |-> "configLongTermStorage"]]
      PROVE  LoginsInv'
  BY <1>1, <1>3, StorageTypesAre
  DEF LoginsInv, FilesHoldLogins, Known, Session, AllTokens
<1> QED BY <1>2, <1>3 DEF BasicAuth

\* bmcweb's own changes: it only adds to what it has ever made.
LEMMA BmcwebKeeps ==
  ASSUME LoginsInv, NEW t \in Tokens, NEW s \in StorageTypes,
         Login(t, s) \/ Logout(t, s)
  PROVE  LoginsInv'
<1>1. UNCHANGED <<authTokens, now>>
      /\ files' = [files EXCEPT ![s] = Json(bmcweb'[s])]
  BY DEF Login, Logout, storeVars
<1>2. /\ bmcweb' \in [StorageTypes -> SUBSET Tokens]
      /\ loggedOut' \in [StorageTypes -> SUBSET Tokens]
      /\ \A r \in StorageTypes :
            bmcweb[r] \cup loggedOut[r] \subseteq bmcweb'[r] \cup loggedOut'[r]
  BY DEF Login, Logout, LoginsInv
<1>3. ASSUME NEW r \in StorageTypes
      PROVE  files'[r].sessions \in {files[r].sessions, bmcweb'[r]}
  BY <1>1 DEF Json, LoginsInv
<1>4. files' = [r \in StorageTypes |-> files'[r]]
  BY <1>1 DEF LoginsInv
<1>5. FilesHoldLogins'
  BY <1>2, <1>3 DEF FilesHoldLogins, LoginsInv
<1>6. ASSUME NEW u \in AllTokens, Known(u)
      PROVE  authTokens[u].storageType \in StorageTypes
  BY <1>6 DEF LoginsInv, Known, Session
<1> QED BY <1>1, <1>2, <1>4, <1>5, <1>6 DEF LoginsInv, Known

\* A restart empties the store.
LEMMA RestartKeeps == ASSUME LoginsInv, Restart PROVE LoginsInv'
  BY DEF Restart, LoginsInv, FilesHoldLogins, Known

\* Every step of a thread, of bmcweb, of the clock and every restart keeps it.
LEMMA LoginsInvNext == ASSUME LoginsInv, [Next]_vars PROVE LoginsInv'
<1>1. ASSUME NEW w \in Workers, Arrive(w) \/ WorkerStep(w) PROVE LoginsInv'
  <2>1. CASE \/ Arrive(w) \/ Lock(w) \/ ReadDone(w) \/ SkipMethod(w)
             \/ Reject(w) \/ Respond(w)
    <3>1. UNCHANGED <<files, authTokens, bmcweb, loggedOut, now>>
      BY <2>1 DEF Arrive, Lock, ReadDone, SkipMethod, Reject, Respond, storeVars,
                  externalVars
    <3> QED BY <3>1, LoginsInvStutter DEF LoginsInv
  <2> QED
    BY <1>1, <2>1, ReadFileKeeps, CommitKeeps, LoginByTokenKeeps, BasicAuthKeeps
    DEF WorkerStep
<1>2. CASE Tick
  BY <1>2, LoginsInvStutter DEF Tick, storeVars, LoginsInv
<1>3. CASE UNCHANGED vars
  BY <1>3, LoginsInvStutter DEF vars, storeVars, externalVars, LoginsInv
<1> QED
  BY <1>1, <1>2, <1>3, BmcwebKeeps, RestartKeeps DEF Next

\* What the store may write and what the files hold go back to logins in bmcweb.
THEOREM LoginsInvariant == Spec => []LoginsInv
<1>1. LoginsInv /\ [Next]_vars => LoginsInv'
  BY LoginsInvNext
<1> QED BY <1>1, LoginsInvInit, PTL DEF Spec

\* The files hold only sessions bmcweb logged in, each in the file of its storage
\* type: no Basic session is ever persisted, from where readData would bring it
\* back as a TIMEOUT session.
THEOREM FilesOnlyLogins == Spec => []FilesHoldLogins
<1>1. LoginsInv => FilesHoldLogins
  BY DEF LoginsInv
<1> QED BY <1>1, LoginsInvariant, PTL

-----------------------------------------------------------------------------
\* How long a session that is accepted can have been idle.  The sweep does not
\* run for every request: what makes AcceptedIsFresh hold is that whatever is
\* left in the store was fresh at the last sweep, a second ago at most; from
\* there to the request it may have become overdue, by less than that second.
WorkerType ==
    [pc : {"idle", "lock", "read", "auth", "open", "write", "run"}, file : Int, out : Int,
     back : {"idle", "read", "commit", "run"}, creds : Seq(Credential),
     session : AllTokens \cup {None}, age : Int]

SweptInv ==
    /\ now \in Nat /\ lastTimeoutUpdate \in Int /\ lastTimeoutUpdate <= now
    /\ \A t \in AllTokens :
        Known(t) => lastTimeoutUpdate - authTokens[t].lastUpdated < Timeout

FreshInv == LoginsInv /\ SweptInv /\ worker \in [Workers -> WorkerType] /\ AcceptedIsFresh

\* A credential that is looked at, and those that are left.
LEMMA FirstCredential ==
  ASSUME NEW c \in Seq(Credential), c # <<>>
  PROVE  /\ Head(c).token \in Tokens \cup {None}
         /\ Tail(c) \in Seq(Credential)
<1>1. Head(c) \in Credential /\ Tail(c) \in Seq(Credential)
  OBVIOUS
<1> QED BY <1>1 DEF Credential

\* A step of one thread that leaves it well formed and its session as fresh.
LEMMA OneWorkerMoves ==
  ASSUME FreshInv, NEW w \in Workers, NEW v \in WorkerType, v.age < Timeout + Second,
         worker' = [worker EXCEPT ![w] = v]
  PROVE  worker' \in [Workers -> WorkerType] /\ AcceptedIsFresh'
<1>1. \A u \in Workers : worker'[u] = IF u = w THEN v ELSE worker[u]
  BY DEF FreshInv
<1> QED BY <1>1 DEF FreshInv, AcceptedIsFresh

LEMMA IdleWorker == Idle \in WorkerType /\ Idle.age = 0
<1>1. <<>> \in Seq(Credential)
  OBVIOUS
<1> QED BY <1>1 DEF Idle, WorkerType

\* Fields of a worker that steps set.
LEMMA WorkerFields ==
  ASSUME NEW v \in WorkerType
  PROVE  /\ \A p \in {"idle", "lock", "read", "auth", "open", "write", "run"} :
                /\ [v EXCEPT !.pc = p] \in WorkerType
                /\ [v EXCEPT !.pc = p].age = v.age
         /\ \A b \in {"idle", "read", "commit", "run"} :
                /\ [v EXCEPT !.back = b] \in WorkerType
                /\ [v EXCEPT !.back = b].age = v.age
         /\ \A k \in Int : /\ [v EXCEPT !.file = k] \in WorkerType
                           /\ [v EXCEPT !.file = k].age = v.age
                           /\ [v EXCEPT !.out = k] \in WorkerType
                           /\ [v EXCEPT !.out = k].age = v.age
         /\ \A c \in Seq(Credential) : /\ [v EXCEPT !.creds = c] \in WorkerType
                                       /\ [v EXCEPT !.creds = c].age = v.age
         /\ \A t \in AllTokens : /\ [v EXCEPT !.session = t] \in WorkerType
                                /\ [v EXCEPT !.session = t].age = v.age
         /\ \A k \in Int : /\ [v EXCEPT !.age = k] \in WorkerType
                           /\ [v EXCEPT !.age = k].age = k
  BY DEF WorkerType

LEMMA AfterCommitField ==
  ASSUME NEW v \in WorkerType
  PROVE  AfterCommit(v) \in WorkerType /\ AfterCommit(v).age = v.age
<1>1. v.back \in {"idle", "read", "commit", "run"} /\ 1 \in Int
  BY DEF WorkerType
<1> DEFINE Moved(p) == [v EXCEPT !.pc = p]
           First(p) == [Moved(p) EXCEPT !.out = 1]
           Back(p, b) == [First(p) EXCEPT !.back = b]
<1>2. ASSUME NEW p \in {"idle", "read", "open", "run"}, NEW b \in {"idle", "run"}
      PROVE  Back(p, b) \in WorkerType /\ Back(p, b).age = v.age
  <2>1. Moved(p) \in WorkerType /\ Moved(p).age = v.age
    BY WorkerFields
  <2> HIDE DEF Moved
  <2>2. First(p) \in WorkerType /\ First(p).age = v.age
    BY <1>1, <2>1, WorkerFields
  <2> HIDE DEF First
  <2> QED BY <2>2, WorkerFields
<1>3. CASE v.back = "commit"
  <2>1. AfterCommit(v) = Back("open", "run")
    BY <1>3 DEF AfterCommit
  <2> HIDE DEF Back
  <2> QED BY <1>2, <2>1
<1>4. CASE v.back # "commit"
  <2>1. AfterCommit(v) = Back(v.back, "idle") /\ v.back \in {"idle", "read", "open", "run"}
    BY <1>1, <1>4 DEF AfterCommit
  <2> HIDE DEF Back
  <2> QED BY <1>2, <2>1
<1> QED BY <1>3, <1>4

\* A worker that leaves the store and the clock as they are.
LEMMA StoreUntouched ==
  ASSUME FreshInv, LoginsInv', UNCHANGED <<authTokens, lastTimeoutUpdate, now>>,
         NEW w \in Workers, NEW v \in WorkerType, v.age < Timeout + Second,
         worker' = [worker EXCEPT ![w] = v]
  PROVE  FreshInv'
<1>1. SweptInv'
  BY DEF FreshInv, SweptInv, Known
<1> QED BY <1>1, OneWorkerMoves DEF FreshInv

\* Arriving, reading the files, committing them and answering.
LEMMA ReadingKeepsFresh ==
  ASSUME FreshInv, LoginsInv', NEW w \in Workers,
         \/ Arrive(w) \/ Lock(w) \/ ReadDone(w) \/ SkipMethod(w) \/ Reject(w) \/ Respond(w)
         \/ CommitOpen(w) \/ CommitWrite(w)
  PROVE  FreshInv'
<1> DEFINE v == worker[w]
<1>0. /\ v \in WorkerType /\ v.age \in Int /\ v.age < Timeout + Second
      /\ Timeout \in Nat \ {0} /\ Second \in Nat \ {0}
  BY SessionAssumption DEF FreshInv, AcceptedIsFresh, WorkerType
<1>1. UNCHANGED <<authTokens, lastTimeoutUpdate, now>>
  BY DEF Arrive, Lock, ReadDone, SkipMethod, Reject, Respond, CommitOpen, CommitWrite,
         storeVars, externalVars
<1>2. ASSUME NEW u \in WorkerType, u.age \in {0, v.age}, worker' = [worker EXCEPT ![w] = u]
      PROVE  FreshInv'
  <2>1. u.age < Timeout + Second
    BY <1>0, <1>2
  <2> QED BY <1>1, <1>2, <2>1, StoreUntouched
<1>3. QED
  <2>1. CASE Arrive(w)
    <3>1. PICK r \in Requests : worker' = [worker EXCEPT ![w] =
                                    [Idle EXCEPT !.pc = "lock", !.creds = r]]
      BY <2>1 DEF Arrive
    <3>2. r \in Seq(Credential)
      BY SessionAssumption
    <3>3. [Idle EXCEPT !.pc = "lock"] \in WorkerType /\ [Idle EXCEPT !.pc = "lock"].age = 0
      BY IdleWorker, WorkerFields
    <3>4. [[Idle EXCEPT !.pc = "lock"] EXCEPT !.creds = r] \in WorkerType
          /\ [[Idle EXCEPT !.pc = "lock"] EXCEPT !.creds = r].age = 0
      BY <3>2, <3>3, WorkerFields
    <3> QED BY <1>2, <3>1, <3>4
  <2>2. CASE Lock(w)
    <3>1. worker' = [worker EXCEPT ![w] = [v EXCEPT !.pc = "read"]]
      BY <2>2 DEF Lock
    <3>2. [v EXCEPT !.pc = "read"] \in WorkerType /\ [v EXCEPT !.pc = "read"].age = v.age
      BY <1>0, WorkerFields
    <3> QED BY <1>2, <3>1, <3>2
  <2>3. CASE ReadDone(w)
    <3>1. PICK n \in {"auth", "run"} :
            worker' = [worker EXCEPT ![w] = [[v EXCEPT !.pc = n] EXCEPT !.file = 1]]
      BY <2>3 DEF ReadDone
    <3>2. [v EXCEPT !.pc = n] \in WorkerType /\ [v EXCEPT !.pc = n].age = v.age
      BY <1>0, WorkerFields
    <3>3. [[v EXCEPT !.pc = n] EXCEPT !.file = 1] \in WorkerType
          /\ [[v EXCEPT !.pc = n] EXCEPT !.file = 1].age = v.age
      <4>1. 1 \in Int
        OBVIOUS
      <4> QED BY <3>2, <4>1, WorkerFields
    <3> QED BY <1>2, <3>1, <3>3
  <2>4. CASE SkipMethod(w)
    <3>1. v.creds \in Seq(Credential) /\ v.creds # <<>>
      BY <1>0, <2>4 DEF SkipMethod, WorkerType
    <3>2. worker' = [worker EXCEPT ![w] = [v EXCEPT !.creds = Tail(v.creds)]]
      BY <2>4 DEF SkipMethod, NextCredential
    <3>3. Tail(v.creds) \in Seq(Credential)
      BY <3>1, FirstCredential
    <3>4. [v EXCEPT !.creds = Tail(v.creds)] \in WorkerType
          /\ [v EXCEPT !.creds = Tail(v.creds)].age = v.age
      BY <1>0, <3>3, WorkerFields
    <3> QED BY <1>2, <3>2, <3>4
  <2>5. CASE Reject(w) \/ Respond(w)
    <3>1. worker' = [worker EXCEPT ![w] = Idle]
      BY <2>5 DEF Reject, Respond
    <3> QED BY <1>2, <3>1, IdleWorker
  <2>6. CASE CommitOpen(w)
    <3>1. worker' = [worker EXCEPT ![w] = [v EXCEPT !.pc = "write"]]
      BY <2>6 DEF CommitOpen
    <3>2. [v EXCEPT !.pc = "write"] \in WorkerType /\ [v EXCEPT !.pc = "write"].age = v.age
      BY <1>0, WorkerFields
    <3> QED BY <1>2, <3>1, <3>2
  <2>7. CASE CommitWrite(w)
    <3> DEFINE u == IF v.out < Len(Storages) THEN [v EXCEPT !.pc = "open", !.out = v.out + 1]
                    ELSE AfterCommit(v)
    <3>1. worker' = [worker EXCEPT ![w] = u]
      BY <2>7 DEF CommitWrite
    <3>2. v.out + 1 \in Int /\ v.back \in {"idle", "read", "commit", "run"}
      BY <1>0 DEF WorkerType
    <3>3. [v EXCEPT !.pc = "open"] \in WorkerType /\ [v EXCEPT !.pc = "open"].age = v.age
      BY <1>0, WorkerFields
    <3>4. [[v EXCEPT !.pc = "open"] EXCEPT !.out = v.out + 1] \in WorkerType
          /\ [[v EXCEPT !.pc = "open"] EXCEPT !.out = v.out + 1].age = v.age
      BY <3>2, <3>3, WorkerFields
    <3>5. AfterCommit(v) \in WorkerType /\ AfterCommit(v).age = v.age
      BY <1>0, AfterCommitField
    <3> QED BY <1>2, <3>1, <3>4, <3>5
  <2> QED BY <2>1, <2>2, <2>3, <2>4, <2>5, <2>6, <2>7

\* A worker whose request is accepted as token t.
LEMMA AcceptedField ==
  ASSUME FreshInv, NEW w \in Workers, NEW t \in AllTokens, NEW b \in {"commit", "run"},
         NEW age \in Int, age = IF Known(t) THEN now - authTokens[t].lastUpdated ELSE 0
  PROVE  \E v \in WorkerType : Accepted(w, t, b) = [worker EXCEPT ![w] = v] /\ v.age = age
<1> DEFINE v1 == [worker[w] EXCEPT !.pc = "open"]
           v2 == [v1 EXCEPT !.back = b]
           v3 == [v2 EXCEPT !.creds = <<>>]
           v4 == [v3 EXCEPT !.session = t]
           v5 == [v4 EXCEPT !.age = age]
<1>1. worker[w] \in WorkerType /\ <<>> \in Seq(Credential)
  BY DEF FreshInv
<1>2. Accepted(w, t, b) = [worker EXCEPT ![w] = v5]
  BY DEF Accepted
<1>3. v1 \in WorkerType
  BY <1>1, WorkerFields
<1> HIDE DEF v1
<1>4. v2 \in WorkerType
  BY <1>3, WorkerFields
<1> HIDE DEF v2
<1>5. v3 \in WorkerType
  BY <1>1, <1>4, WorkerFields
<1> HIDE DEF v3
<1>6. v4 \in WorkerType
  BY <1>5, WorkerFields
<1> HIDE DEF v4
<1>7. v5 \in WorkerType /\ v5.age = age
  BY <1>6, WorkerFields
<1> HIDE DEF v5
<1> QED BY <1>2, <1>7

\* Restored sessions are as fresh as now.
LEMMA ReadFileKeepsFresh ==
  ASSUME FreshInv, LoginsInv', NEW w \in Workers, NEW k \in DOMAIN Storages, ReadFile(w, k)
  PROVE  FreshInv'
<1> DEFINE v == worker[w]
           a == [v EXCEPT !.file = k + 1]
<1>0. /\ v \in WorkerType /\ v.age < Timeout + Second
      /\ Timeout \in Nat \ {0} /\ Second \in Nat \ {0}
      /\ now \in Int /\ k + 1 \in Int
  BY SessionAssumption DEF FreshInv, AcceptedIsFresh, LoginsInv, Storages
<1>1. /\ UNCHANGED <<lastTimeoutUpdate, now>>
      /\ authTokens' \in {Restored(Storages[k]), authTokens}
  BY DEF ReadFile, externalVars
<1>2. ASSUME NEW t \in AllTokens, Known(t)'
      PROVE  lastTimeoutUpdate - authTokens'[t].lastUpdated < Timeout
  <2>1. CASE authTokens'[t] = authTokens[t]
    BY <1>2, <2>1 DEF FreshInv, SweptInv, Known
  <2>2. CASE authTokens'[t] # authTokens[t]
    <3>1. authTokens'[t].lastUpdated = now
      BY <1>1, <2>2 DEF Restored
    <3> QED BY <1>0, <3>1 DEF FreshInv, SweptInv
  <2> QED BY <2>1, <2>2
<1>3. SweptInv'
  BY <1>1, <1>2 DEF FreshInv, SweptInv
<1>4. a \in WorkerType /\ a.age = v.age
  BY <1>0, WorkerFields
<1>5. [[v EXCEPT !.pc = "open"] EXCEPT !.back = "read"] \in WorkerType
      /\ [[v EXCEPT !.pc = "open"] EXCEPT !.back = "read"].age = v.age
  <2>1. [v EXCEPT !.pc = "open"] \in WorkerType /\ [v EXCEPT !.pc = "open"].age = v.age
    BY <1>0, WorkerFields
  <2> QED BY <2>1, WorkerFields
<1> DEFINE b == [[[v EXCEPT !.pc = "open"] EXCEPT !.back = "read"] EXCEPT !.file = k + 1]
<1>6. b \in WorkerType /\ b.age = v.age
  BY <1>0, <1>5, WorkerFields
<1>7. worker' = [worker EXCEPT ![w] = a] \/ worker' = [worker EXCEPT ![w] = b]
  BY DEF ReadFile
<1> HIDE DEF a, b
<1>8. worker' \in [Workers -> WorkerType] /\ AcceptedIsFresh'
  BY <1>0, <1>4, <1>6, <1>7, OneWorkerMoves
<1> QED BY <1>3, <1>8 DEF FreshInv

\* What the sweep leaves was fresh at the last sweep, and so a second later at
\* most: a token that is found is accepted within its time.
LEMMA LoginByTokenKeepsFresh ==
  ASSUME FreshInv, LoginsInv', NEW w \in Workers, LoginByToken(w)
  PROVE  FreshInv'
<1> DEFINE v == worker[w]
           t == Head(v.creds).token
<1>0. /\ v \in WorkerType /\ v.age < Timeout + Second
      /\ Timeout \in Nat \ {0} /\ Second \in Nat \ {0} /\ now \in Int
      /\ v.creds \in Seq(Credential) /\ v.creds # <<>>
      /\ lastTimeoutUpdate \in Int /\ lastTimeoutUpdate <= now
      /\ authTokens \in [AllTokens -> Session \cup {NoSession}]
  BY SessionAssumption
  DEF FreshInv, SweptInv, AcceptedIsFresh, LoginsInv, WorkerType, LoginByToken, Trying
<1>1. t \in Tokens \cup {None} /\ Tail(v.creds) \in Seq(Credential)
  BY <1>0, FirstCredential
<1>2. /\ now' = now /\ lastTimeoutUpdate' = IF SweepDue THEN now ELSE lastTimeoutUpdate
      /\ \/ authTokens' = Swept /\ worker' = NextCredential(w)
         \/ /\ t # None /\ Swept[t] # NoSession
            /\ authTokens' = [Swept EXCEPT ![t].lastUpdated = now]
            /\ worker' = Accepted(w, t, "run") \/ worker' = NextCredential(w)
  BY DEF LoginByToken, externalVars
<1>3. ASSUME NEW u \in AllTokens, Swept[u] # NoSession
      PROVE  /\ Swept[u] = authTokens[u] /\ Known(u) /\ authTokens[u].lastUpdated \in Int
             /\ lastTimeoutUpdate' - authTokens[u].lastUpdated < Timeout
             /\ now - authTokens[u].lastUpdated < Timeout + Second
  <2>1. Swept[u] = authTokens[u] /\ Known(u) /\ ~ (SweepDue /\ Expired(u))
    BY <1>3 DEF Swept, Known
  <2>2. authTokens[u].lastUpdated \in Int
    BY <1>0, <2>1 DEF Session, Known
  <2>3. lastTimeoutUpdate - authTokens[u].lastUpdated < Timeout
    BY <2>1 DEF FreshInv, SweptInv
  <2>4. CASE SweepDue
    BY <1>0, <1>2, <2>1, <2>2, <2>4 DEF Expired
  <2>5. CASE ~ SweepDue
    <3>1. lastTimeoutUpdate' = lastTimeoutUpdate /\ now - lastTimeoutUpdate <= Second
      BY <1>0, <1>2, <2>5 DEF SweepDue
    <3>2. ASSUME NEW n \in Int, NEW l \in Int, NEW a \in Int, NEW d \in Int,
                 n - l <= 1, l - a < d
          PROVE  n - a <= d
      BY <3>2
    <3>3. now - authTokens[u].lastUpdated < Timeout + Second
      BY <1>0, <2>2, <2>3, <3>1, <3>2
    <3> QED BY <2>1, <2>2, <2>3, <3>1, <3>3
  <2> QED BY <2>1, <2>2, <2>4, <2>5
<1>4. Swept \in [AllTokens -> Session \cup {NoSession}]
  BY <1>0 DEF Swept
<1>5. lastTimeoutUpdate' \in Int /\ lastTimeoutUpdate' <= now /\ now \in Nat
  BY <1>0, <1>2 DEF FreshInv, SweptInv
<1>6. ASSUME NEW u \in AllTokens, Known(u)'
      PROVE  lastTimeoutUpdate' - authTokens'[u].lastUpdated < Timeout
  <2>1. CASE authTokens' = Swept
    BY <1>3, <1>6, <2>1 DEF Known
  <2>2. CASE Swept[t] # NoSession /\ authTokens' = [Swept EXCEPT ![t].lastUpdated = now]
    <3>1. CASE u = t
      <4>1. Swept[u] \in Session
        BY <1>4, <2>2, <3>1
      <4>2. authTokens'[u].lastUpdated = now
        BY <1>4, <2>2, <3>1, <4>1 DEF Session
      <4>3. ASSUME NEW l \in Int, NEW n \in Int, NEW d \in Nat \ {0}, l <= n
            PROVE  l - n < d
        BY <4>3
      <4> QED BY <1>0, <1>5, <4>2, <4>3
    <3>2. CASE u # t
      <4>1. authTokens'[u] = Swept[u]
        BY <1>4, <2>2, <3>2
      <4> QED BY <1>3, <1>6, <4>1 DEF Known
    <3> QED BY <3>1, <3>2
  <2> QED BY <1>2, <2>1, <2>2
<1>7. SweptInv'
  BY <1>2, <1>5, <1>6 DEF SweptInv
<1>8. worker' \in [Workers -> WorkerType] /\ AcceptedIsFresh'
  <2>1. CASE worker' = NextCredential(w)
    <3> DEFINE n == [v EXCEPT !.creds = Tail(v.creds)]
    <3>1. n \in WorkerType /\ n.age = v.age
      BY <1>0, <1>1, WorkerFields
    <3>2. worker' = [worker EXCEPT ![w] = n]
      BY <2>1 DEF NextCredential
    <3> HIDE DEF n
    <3> QED BY <1>0, <3>1, <3>2, OneWorkerMoves
  <2>2. CASE t # None /\ Swept[t] # NoSession /\ worker' = Accepted(w, t, "run")
    <3>1. t \in AllTokens
      BY <1>1, <2>2 DEF AllTokens
    <3> DEFINE age == now - authTokens[t].lastUpdated
    <3>2. Known(t) /\ age \in Int /\ age < Timeout + Second
      BY <1>0, <1>3, <2>2, <3>1
    <3>3. age = IF Known(t) THEN now - authTokens[t].lastUpdated ELSE 0
      BY <3>2
    <3> HIDE DEF age, t
    <3>4. \E n \in WorkerType : Accepted(w, t, "run") = [worker EXCEPT ![w] = n] /\ n.age = age
      BY <3>1, <3>2, <3>3, AcceptedField
    <3> QED BY <2>2, <3>2, <3>4, OneWorkerMoves
  <2> QED BY <1>2, <2>1, <2>2
<1> QED BY <1>7, <1>8 DEF FreshInv

\* A session of Basic authentication is new.
LEMMA BasicAuthKeepsFresh ==
  ASSUME FreshInv, LoginsInv', NEW w \in Workers, BasicAuth(w)
  PROVE  FreshInv'
<1> DEFINE v == worker[w]
<1>0. /\ v \in WorkerType /\ v.age < Timeout + Second
      /\ Timeout \in Nat \ {0} /\ Second \in Nat \ {0} /\ now \in Int
      /\ v.creds \in Seq(Credential) /\ v.creds # <<>>
      /\ authTokens \in [AllTokens -> Session \cup {NoSession}]
      /\ UNCHANGED <<lastTimeoutUpdate, now>>
  BY SessionAssumption
  DEF FreshInv, AcceptedIsFresh, LoginsInv, WorkerType, BasicAuth, Trying, externalVars
<1>1. CASE worker' = NextCredential(w) /\ UNCHANGED authTokens
  <2> DEFINE n == [v EXCEPT !.creds = Tail(v.creds)]
  <2>1. Tail(v.creds) \in Seq(Credential)
    BY <1>0, FirstCredential
  <2>2. n \in WorkerType /\ n.age = v.age
    BY <1>0, <2>1, WorkerFields
  <2>3. worker' = [worker EXCEPT ![w] = n]
    BY <1>1 DEF NextCredential
  <2> HIDE DEF n
  <2> QED BY <1>0, <1>1, <2>2, <2>3, StoreUntouched
<1>2. ASSUME NEW t \in BasicTokens, ~Known(t),
             authTokens' = [authTokens EXCEPT ![t] =
                    [lastUpdated |-> now, persistence |-> "SINGLE_REQUEST",
                     storageType |-> "configLongTermStorage"]],
             worker' = Accepted(w, t, "commit")
      PROVE  FreshInv'
  <2>1. t \in AllTokens
    BY DEF AllTokens
  <2>2. \E n \in WorkerType : Accepted(w, t, "commit") = [worker EXCEPT ![w] = n] /\ n.age = 0
    BY <1>2, <2>1, AcceptedField
  <2>3. worker' \in [Workers -> WorkerType] /\ AcceptedIsFresh'
    BY <1>0, <1>2, <2>2, OneWorkerMoves
  <2>4. ASSUME NEW u \in AllTokens, Known(u)'
        PROVE  lastTimeoutUpdate' - authTokens'[u].lastUpdated < Timeout
    <3>1. CASE u = t
      <4>1. authTokens'[u].lastUpdated = now
        BY <1>0, <1>2, <2>1, <3>1
      <4> QED BY <1>0, <4>1 DEF FreshInv, SweptInv
    <3>2. CASE u # t
      BY <1>0, <1>2, <2>4, <3>2 DEF FreshInv, SweptInv, Known
    <3> QED BY <3>1, <3>2
  <2>5. SweptInv'
    BY <1>0, <2>4 DEF FreshInv, SweptInv
  <2> QED BY <2>3, <2>5 DEF FreshInv
<1> QED BY <1>1, <1>2 DEF BasicAuth

\* Steps of bmcweb, of the clock, and a restart.
LEMMA WorldKeepsFresh ==
  ASSUME FreshInv, LoginsInv',
         \/ \E t \in Tokens, s \in StorageTypes : Login(t, s) \/ Logout(t, s)
         \/ Tick \/ Restart \/ UNCHANGED vars
  PROVE  FreshInv'
<1>1. CASE UNCHANGED <<authTokens, lastTimeoutUpdate, worker>> /\ now' \in {now, now + 1}
  BY <1>1 DEF FreshInv, SweptInv, AcceptedIsFresh, Known
<1>2. CASE Restart
  <2>1. /\ \A t \in AllTokens : ~Known(t)'
        /\ lastTimeoutUpdate' = LongAgo /\ now' = now
        /\ worker' = [w \in Workers |-> Idle]
    BY <1>2 DEF Restart, Known
  <2>2. SweptInv'
    BY <2>1, SessionAssumption DEF FreshInv, SweptInv, LongAgo
  <2>3. worker' \in [Workers -> WorkerType] /\ AcceptedIsFresh'
    BY <2>1, IdleWorker, SessionAssumption DEF AcceptedIsFresh
  <2> QED BY <2>2, <2>3 DEF FreshInv
<1> QED
  BY <1>1, <1>2 DEF Login, Logout, Tick, vars, storeVars, externalVars

LEMMA FreshInvNext == ASSUME FreshInv, [Next]_vars PROVE FreshInv'
<1>1. LoginsInv'
  BY LoginsInvNext DEF FreshInv
<1>2. ASSUME NEW w \in Workers, Arrive(w) \/ WorkerStep(w) PROVE FreshInv'
  BY <1>1, <1>2, ReadingKeepsFresh, ReadFileKeepsFresh, LoginByTokenKeepsFresh,
     BasicAuthKeepsFresh
  DEF WorkerStep
<1> QED BY <1>1, <1>2, WorldKeepsFresh DEF Next

LEMMA FreshInvInit == Init => FreshInv
<1> SUFFICES ASSUME Init PROVE FreshInv
  OBVIOUS
<1>1. LoginsInv
  BY LoginsInvInit
<1>2. SweptInv
  BY SessionAssumption DEF Init, SweptInv, Known, LongAgo
<1>3. worker \in [Workers -> WorkerType] /\ AcceptedIsFresh
  BY IdleWorker, SessionAssumption DEF Init, AcceptedIsFresh
<1> QED BY <1>1, <1>2, <1>3 DEF FreshInv

\* A request may be accepted with a session that is overdue, as
\* applySessionTimeouts does not sweep for every request, but never by a second or
\* more, whatever fraction of a second the requests are apart.
THEOREM AcceptedFresh == Spec => []AcceptedIsFresh
<1>1. FreshInv /\ [Next]_vars => FreshInv'
  BY FreshInvNext
<1>2. FreshInv => AcceptedIsFresh
  BY DEF FreshInv
<1> QED BY <1>1, <1>2, FreshInvInit, PTL DEF Spec

-----------------------------------------------------------------------------
\* The mutex of readData.  A thread holds it from its first file to the return of
\* readData, the commits that a new uuid makes in between included: Inside says so
\* of the record of one thread, and SessionTypeOK of all.
Inside(v) ==
    \/ v.pc = "read"
    \/ v.pc \in {"open", "write"} /\ v.back = "read"

MutexInv == FreshInv /\ SessionTypeOK

\* A thread that moves within the loops over the files.
LoopType(v) == v.file \in 1..3 /\ v.out \in 1..2

LEMMA TwoStorages == Len(Storages) = 2 /\ DOMAIN Storages = 1..2
<1>1. Storages \in Seq({"configLongTermStorage", "configCurrentBmcSession"})
  BY DEF Storages
<1>2. Len(Storages) = 2
  BY DEF Storages
<1> QED BY <1>1, <1>2

LEMMA InsideIs == ASSUME NEW w PROVE InReadData(w) <=> Inside(worker[w])
  BY DEF InReadData, Inside

\* What SessionTypeOK says of the threads.
ThreadsOK ==
    /\ mutex \in Workers \cup {None}
    /\ \A w \in Workers : LoopType(worker[w]) /\ (Inside(worker[w]) <=> mutex = w)

\* What it says of the files and of the rest.
DataOK ==
    /\ \A s \in StorageTypes : files[s].state \in {"missing", "garbled", "json"}
                               /\ files[s].length \in Nat
    /\ systemUuid \in BOOLEAN
    /\ timedOut \subseteq AllTokens
    /\ now \in 0..MaxTime /\ restarts \in 0..MaxRestarts

\* The rest of SessionTypeOK is known from the proofs above.
LEMMA MutexInvParts == MutexInv <=> FreshInv /\ ThreadsOK /\ DataOK
<1>1. ASSUME FreshInv
      PROVE  /\ authTokens \in [AllTokens -> Session \cup {NoSession}]
             /\ \A s \in StorageTypes :
                    /\ files[s].sessions \subseteq AllTokens
                    /\ bmcweb[s] \cup loggedOut[s] \subseteq Tokens
             /\ \A w \in Workers :
                    /\ worker[w].pc \in {"idle", "lock", "read", "auth", "open", "write", "run"}
                    /\ worker[w].back \in {"idle", "read", "commit", "run"}
                    /\ worker[w].session \in AllTokens \cup {None}
  <2>1. ASSUME NEW s \in StorageTypes
        PROVE  /\ files[s].sessions \subseteq AllTokens
               /\ bmcweb[s] \cup loggedOut[s] \subseteq Tokens
    BY <1>1 DEF FreshInv, LoginsInv, FilesHoldLogins, AllTokens
  <2>2. ASSUME NEW w \in Workers
        PROVE  /\ worker[w].pc \in {"idle", "lock", "read", "auth", "open", "write", "run"}
               /\ worker[w].back \in {"idle", "read", "commit", "run"}
               /\ worker[w].session \in AllTokens \cup {None}
    BY <1>1 DEF FreshInv, WorkerType
  <2> QED BY <1>1, <2>1, <2>2 DEF FreshInv, LoginsInv
<1>2. ASSUME FreshInv PROVE SessionTypeOK <=> ThreadsOK /\ DataOK
  <2>1. (\A w \in Workers : InReadData(w) <=> mutex = w)
            <=> \A w \in Workers : Inside(worker[w]) <=> mutex = w
    BY InsideIs
  <2> QED BY <1>1, <1>2, <2>1, TwoStorages DEF SessionTypeOK, ThreadsOK, DataOK, LoopType
<1> QED BY <1>2 DEF MutexInv

\* The fields of a thread that these proofs look at, after a step that sets one.
LEMMA MutexFields ==
  ASSUME NEW v \in WorkerType
  PROVE  /\ \A p : LET u == [v EXCEPT !.pc = p]
                   IN  /\ u.pc = p /\ u.back = v.back /\ u.file = v.file /\ u.out = v.out
         /\ \A b : LET u == [v EXCEPT !.back = b]
                   IN  /\ u.pc = v.pc /\ u.back = b /\ u.file = v.file /\ u.out = v.out
         /\ \A k : LET u == [v EXCEPT !.file = k]
                   IN  /\ u.pc = v.pc /\ u.back = v.back /\ u.file = k /\ u.out = v.out
         /\ \A k : LET u == [v EXCEPT !.out = k]
                   IN  /\ u.pc = v.pc /\ u.back = v.back /\ u.file = v.file /\ u.out = k
  BY DEF WorkerType


\* A thread that does not pass the mutex on and stays inside, or outside.
LEMMA StaysInside ==
  ASSUME MutexInv, NEW w \in Workers, NEW v, LoopType(v), worker' = [worker EXCEPT ![w] = v],
         Inside(v) <=> Inside(worker[w]), mutex' = mutex
  PROVE  ThreadsOK'
<1>1. \A u \in Workers : worker'[u] = IF u = w THEN v ELSE worker[u]
  BY DEF MutexInv, FreshInv
<1> QED BY <1>1, MutexInvParts DEF ThreadsOK

\* A thread that takes the free mutex, or gives it back.
LEMMA PassesMutex ==
  ASSUME MutexInv, NEW w \in Workers, NEW v, LoopType(v), worker' = [worker EXCEPT ![w] = v],
         \/ mutex = None /\ mutex' = w /\ Inside(v)
         \/ mutex = w /\ mutex' = None /\ ~Inside(v)
  PROVE  ThreadsOK'
<1>1. \A u \in Workers : worker'[u] = IF u = w THEN v ELSE worker[u]
  BY DEF MutexInv, FreshInv
<1>2. None \notin Workers
  BY SessionAssumption
<1> QED BY <1>1, <1>2, MutexInvParts DEF ThreadsOK

\* Steps that leave what DataOK is about alone, but for the files.
LEMMA DataKept ==
  ASSUME MutexInv, UNCHANGED <<now, restarts>>, systemUuid' \in BOOLEAN,
         timedOut' \subseteq AllTokens,
         \A s \in StorageTypes : \/ files'[s] = files[s]
                                 \/ /\ files'[s].state \in {"missing", "garbled", "json"}
                                    /\ files'[s].length \in Nat
  PROVE  DataOK'
  BY MutexInvParts DEF DataOK

LEMMA IdleOutside == LoopType(Idle) /\ ~Inside(Idle)
  BY DEF Idle, LoopType, Inside

\* readData: the lock, the files with a commit among them, and the return.
LEMMA ReadDataKeepsMutex ==
  ASSUME MutexInv, NEW w \in Workers,
         Lock(w) \/ (\E k \in DOMAIN Storages : ReadFile(w, k)) \/ ReadDone(w)
  PROVE  ThreadsOK'
<1> DEFINE v == worker[w]
<1>0. v \in WorkerType /\ LoopType(v) /\ (Inside(v) <=> mutex = w)
  BY MutexInvParts DEF MutexInv, FreshInv, ThreadsOK
<1>1. CASE Lock(w)
  <2> DEFINE u == [v EXCEPT !.pc = "read"]
  <2>1. worker' = [worker EXCEPT ![w] = u] /\ mutex = None /\ mutex' = w
    BY <1>1 DEF Lock
  <2>2. u.pc = "read" /\ u.file = v.file /\ u.out = v.out
    BY <1>0, MutexFields
  <2> HIDE DEF u
  <2>3. LoopType(u) /\ Inside(u)
    BY <1>0, <2>2 DEF LoopType, Inside
  <2> QED BY <2>1, <2>3, PassesMutex
<1>2. ASSUME NEW k \in DOMAIN Storages, ReadFile(w, k) PROVE ThreadsOK'
  <2> DEFINE a == [v EXCEPT !.file = k + 1]
             b1 == [v EXCEPT !.pc = "open"]
             b2 == [b1 EXCEPT !.back = "read"]
             b == [b2 EXCEPT !.file = k + 1]
  <2>1. k + 1 \in 1..3 /\ k + 1 \in Int
    BY TwoStorages
  <2>2. v.pc = "read" /\ mutex' = mutex
        /\ (worker' = [worker EXCEPT ![w] = a] \/ worker' = [worker EXCEPT ![w] = b])
    BY <1>2 DEF ReadFile, Reading
  <2>3. a.pc = v.pc /\ a.file = k + 1 /\ a.out = v.out
    BY <1>0, MutexFields
  <2>4. b1 \in WorkerType /\ b1.pc = "open" /\ b1.out = v.out
    BY <1>0, MutexFields, WorkerFields
  <2> HIDE DEF b1
  <2>5. b2 \in WorkerType /\ b2.pc = "open" /\ b2.back = "read" /\ b2.out = v.out
    BY <2>4, MutexFields, WorkerFields
  <2> HIDE DEF b2
  <2>6. b.pc = "open" /\ b.back = "read" /\ b.file = k + 1 /\ b.out = v.out
    BY <2>5, MutexFields
  <2> HIDE DEF a, b
  <2>7. LoopType(a) /\ Inside(a) /\ LoopType(b) /\ Inside(b) /\ Inside(v)
    BY <1>0, <2>1, <2>2, <2>3, <2>6 DEF LoopType, Inside
  <2> QED BY <2>2, <2>7, StaysInside
<1>3. CASE ReadDone(w)
  <2>1. PICK n \in {"auth", "run"} :
            worker' = [worker EXCEPT ![w] = [[v EXCEPT !.pc = n] EXCEPT !.file = 1]]
    BY <1>3 DEF ReadDone
  <2>2. v.pc = "read" /\ mutex' = None
    BY <1>3 DEF ReadDone, Reading, MutexAfterRead
  <2> DEFINE u1 == [v EXCEPT !.pc = n]
             u == [u1 EXCEPT !.file = 1]
  <2>3. u1 \in WorkerType /\ u1.pc = n /\ u1.out = v.out
    BY <1>0, MutexFields, WorkerFields
  <2> HIDE DEF u1
  <2>4. u.pc = n /\ u.out = v.out /\ u.file = 1
    BY <2>3, MutexFields
  <2>5. worker' = [worker EXCEPT ![w] = u]
    BY <2>1 DEF u1
  <2> HIDE DEF u
  <2>6. LoopType(u) /\ ~Inside(u) /\ Inside(v)
    BY <1>0, <2>2, <2>4 DEF LoopType, Inside
  <2> QED BY <1>0, <2>2, <2>5, <2>6, PassesMutex
<1> QED BY <1>1, <1>2, <1>3

\* A commit within readData keeps the mutex; one of authenticate never has it.
LEMMA CommitKeepsMutex ==
  ASSUME MutexInv, NEW w \in Workers, CommitOpen(w) \/ CommitWrite(w)
  PROVE  ThreadsOK'
<1> DEFINE v == worker[w]
<1>0. v \in WorkerType /\ LoopType(v) /\ v.back \in {"idle", "read", "commit", "run"}
  BY MutexInvParts DEF MutexInv, FreshInv, ThreadsOK, WorkerType
<1>1. CASE CommitOpen(w)
  <2> DEFINE u == [v EXCEPT !.pc = "write"]
  <2>1. worker' = [worker EXCEPT ![w] = u] /\ v.pc = "open" /\ mutex' = mutex
    BY <1>1 DEF CommitOpen
  <2>2. u.pc = "write" /\ u.back = v.back /\ u.file = v.file /\ u.out = v.out
    BY <1>0, MutexFields
  <2> HIDE DEF u
  <2>3. LoopType(u) /\ (Inside(u) <=> Inside(v))
    BY <1>0, <2>1, <2>2 DEF LoopType, Inside
  <2> QED BY <2>1, <2>3, StaysInside
<1>2. CASE CommitWrite(w)
  <2> DEFINE o == [v EXCEPT !.pc = "open"]
             more == [o EXCEPT !.out = v.out + 1]
             done == AfterCommit(v)
  <2>1. v.pc = "write" /\ mutex' = mutex
        /\ worker' = [worker EXCEPT ![w] = IF v.out < 2 THEN more ELSE done]
    BY <1>2, TwoStorages DEF CommitWrite
  <2>2. o \in WorkerType /\ o.pc = "open" /\ o.back = v.back /\ o.file = v.file
    BY <1>0, MutexFields, WorkerFields
  <2> HIDE DEF o
  <2>3. /\ more.pc = "open" /\ more.back = v.back /\ more.file = v.file
        /\ more.out = v.out + 1
    BY <2>2, MutexFields
  <2> HIDE DEF more
  <2>4. v.out < 2 => LoopType(more) /\ (Inside(more) <=> Inside(v))
    BY <1>0, <2>1, <2>3 DEF LoopType, Inside
  <2>5. /\ done.file = v.file /\ done.out = 1
        /\ IF v.back = "commit" THEN done.pc = "open" /\ done.back = "run"
           ELSE done.pc = v.back /\ done.back = "idle"
    <3> DEFINE m(p) == [v EXCEPT !.pc = p]
               f(p) == [m(p) EXCEPT !.out = 1]
               e(p, b) == [f(p) EXCEPT !.back = b]
    <3>1. ASSUME NEW p \in {"idle", "read", "open", "run"}, NEW b
          PROVE  e(p, b).pc = p /\ e(p, b).out = 1 /\ e(p, b).back = b
                 /\ e(p, b).file = v.file
      <4>1. m(p) \in WorkerType /\ m(p).pc = p /\ m(p).file = v.file
        BY <1>0, MutexFields, WorkerFields
      <4> HIDE DEF m
      <4>2. f(p) \in WorkerType /\ f(p).pc = p /\ f(p).file = v.file /\ f(p).out = 1
        <5>1. 1 \in Int
          OBVIOUS
        <5> QED BY <4>1, <5>1, MutexFields, WorkerFields
      <4> HIDE DEF f
      <4> QED BY <4>2, MutexFields
    <3>2. done = IF v.back = "commit" THEN e("open", "run") ELSE e(v.back, "idle")
      BY DEF AfterCommit
    <3> HIDE DEF e, done
    <3> QED BY <1>0, <3>1, <3>2
  <2> HIDE DEF done
  <2>6. LoopType(done) /\ (Inside(done) <=> Inside(v))
    BY <1>0, <2>1, <2>5 DEF LoopType, Inside
  <2> QED BY <2>1, <2>4, <2>6, StaysInside
<1> QED BY <1>1, <1>2


\* Where a thread goes that tries its credentials: on to the next, or to the
\* commit of the session it is accepted with.
LEMMA AuthKeepsMutex ==
  ASSUME MutexInv, NEW w \in Workers, SkipMethod(w) \/ LoginByToken(w) \/ BasicAuth(w)
  PROVE  ThreadsOK'
<1> DEFINE v == worker[w]
<1>0. /\ v \in WorkerType /\ LoopType(v) /\ v.pc = "auth" /\ mutex' = mutex /\ ~Inside(v)
      /\ v.creds \in Seq(Credential) /\ v.creds # <<>>
  <2>1. v \in WorkerType /\ LoopType(v)
    BY MutexInvParts DEF MutexInv, FreshInv, ThreadsOK
  <2>2. v.pc = "auth" /\ v.creds # <<>> /\ mutex' = mutex
    BY DEF SkipMethod, LoginByToken, BasicAuth, Trying
  <2> QED BY <2>1, <2>2 DEF Inside, WorkerType
<1>1. CASE worker' = NextCredential(w)
  <2> DEFINE u == [v EXCEPT !.creds = Tail(v.creds)]
  <2>1. worker' = [worker EXCEPT ![w] = u]
    BY <1>1 DEF NextCredential
  <2>2. u.pc = v.pc /\ u.file = v.file /\ u.out = v.out
    BY <1>0 DEF WorkerType
  <2> HIDE DEF u
  <2>3. LoopType(u) /\ ~Inside(u)
    BY <1>0, <2>2 DEF LoopType, Inside
  <2> QED BY <1>0, <2>1, <2>3, StaysInside
<1>2. ASSUME NEW t, NEW b \in {"commit", "run"}, worker' = Accepted(w, t, b)
      PROVE  ThreadsOK'
  <2> DEFINE u == [v EXCEPT !.pc = "open", !.back = b, !.creds = <<>>, !.session = t,
                            !.age = IF Known(t) THEN now - authTokens[t].lastUpdated ELSE 0]
  <2>1. worker' = [worker EXCEPT ![w] = u]
    BY <1>2 DEF Accepted
  <2>2. u.pc = "open" /\ u.back = b /\ u.file = v.file /\ u.out = v.out
    BY <1>0 DEF WorkerType
  <2> HIDE DEF u
  <2>3. LoopType(u) /\ ~Inside(u)
    BY <1>0, <2>2 DEF LoopType, Inside
  <2> QED BY <1>0, <2>1, <2>3, StaysInside
<1> QED BY <1>1, <1>2 DEF SkipMethod, LoginByToken, BasicAuth

\* A request comes, is rejected or answered.
LEMMA RequestKeepsMutex ==
  ASSUME MutexInv, NEW w \in Workers, Arrive(w) \/ Reject(w) \/ Respond(w)
  PROVE  ThreadsOK'
<1> DEFINE v == worker[w]
<1>1. ~Inside(v) /\ mutex' = mutex
  BY DEF Arrive, Reject, Respond, Inside
<1>2. CASE Arrive(w)
  <2>1. PICK r \in Requests : worker' = [worker EXCEPT ![w] =
                                    [Idle EXCEPT !.pc = "lock", !.creds = r]]
    BY <1>2 DEF Arrive
  <2> DEFINE u == [Idle EXCEPT !.pc = "lock", !.creds = r]
  <2>2. u.pc = "lock" /\ u.file = 1 /\ u.out = 1
    BY DEF Idle
  <2> HIDE DEF u
  <2>3. LoopType(u) /\ ~Inside(u)
    BY <2>2 DEF LoopType, Inside
  <2> QED BY <1>1, <2>1, <2>3, StaysInside DEF u
<1>3. CASE Reject(w) \/ Respond(w)
  <2>1. worker' = [worker EXCEPT ![w] = Idle]
    BY <1>3 DEF Reject, Respond
  <2> QED BY <1>1, <2>1, IdleOutside, StaysInside
<1> QED BY <1>2, <1>3

\* The lengths of files stay numbers: what a commit counts is a set of tokens.
LEMMA WrittenFile ==
  ASSUME NEW S, S \subseteq AllTokens
  PROVE  /\ Json(S).state = "json" /\ Json(S).length \in Nat
         /\ \A f : f.length \in Nat =>
                /\ Overwrite(f, S).state \in {"garbled", "json"}
                /\ Overwrite(f, S).length \in Nat
<1>1. IsFiniteSet(S)
  BY SessionAssumption, FS_Subset
<1>2. Cardinality(S) \in Nat
  BY <1>1, FS_CardinalityType
<1> QED BY <1>2 DEF Json, Overwrite, Garbled

\* The state and the length of every file after a step of a thread.
LEMMA WorkerKeepsData ==
  ASSUME MutexInv, NEW w \in Workers, Arrive(w) \/ WorkerStep(w)
  PROVE  DataOK'
<1>0. DataOK
  BY MutexInvParts
<1>1. CASE CommitOpen(w) \/ CommitWrite(w)
  <2> DEFINE p == Storages[worker[w].out]
  <2>1. UNCHANGED <<now, restarts, systemUuid, timedOut>>
    BY <1>1 DEF CommitOpen, CommitWrite, externalVars
  <2>2. PICK g : files' = [files EXCEPT ![p] = g]
                 /\ (p \in StorageTypes => g.state \in {"garbled", "json"} /\ g.length \in Nat)
    <3>1. CASE CommitOpen(w)
      <4>1. files' = [files EXCEPT ![p] = Garbled(0)]
        BY <3>1 DEF CommitOpen
      <4>2. Garbled(0).state = "garbled" /\ Garbled(0).length \in Nat
        BY DEF Garbled
      <4> QED BY <4>1, <4>2
    <3>2. CASE CommitWrite(w)
      <4>1. files' = [files EXCEPT ![p] = Overwrite(files[p], populateSessions(p))]
        BY <3>2 DEF CommitWrite
      <4>2. populateSessions(p) \subseteq AllTokens
        BY DEF populateSessions
      <4>3. p \in StorageTypes => files[p].length \in Nat
        BY <1>0 DEF DataOK
      <4> HIDE DEF p
      <4> QED BY <4>1, <4>2, <4>3, WrittenFile
    <3> QED BY <1>1, <3>1, <3>2
  <2>3. \A s \in StorageTypes : files'[s] = IF s = p THEN g ELSE files[s]
    BY <2>2 DEF MutexInv, FreshInv, LoginsInv
  <2> HIDE DEF p
  <2> QED BY <1>0, <2>1, <2>2, <2>3, DataKept DEF DataOK
<1>2. CASE LoginByToken(w)
  <2>1. /\ UNCHANGED <<files, now, restarts, systemUuid>>
        /\ timedOut' \subseteq timedOut \cup AllTokens
    BY <1>2 DEF LoginByToken, externalVars
  <2> QED BY <1>0, <2>1, DataKept DEF DataOK
<1>3. ASSUME NEW k \in DOMAIN Storages, ReadFile(w, k) PROVE DataOK'
  <2>1. UNCHANGED <<files, now, restarts, timedOut>>
    BY <1>3 DEF ReadFile, externalVars
  <2>2. systemUuid' \in BOOLEAN
    BY <1>0, <1>3 DEF ReadFile, DataOK
  <2> QED BY <1>0, <2>1, <2>2, DataKept DEF DataOK
<1>4. CASE \/ Arrive(w) \/ Lock(w) \/ ReadDone(w) \/ SkipMethod(w) \/ BasicAuth(w)
           \/ Reject(w) \/ Respond(w)
  <2>1. UNCHANGED <<files, now, restarts, systemUuid, timedOut>>
    BY <1>4 DEF Arrive, Lock, ReadDone, SkipMethod, BasicAuth, Reject, Respond, externalVars
  <2> QED BY <1>0, <2>1, DataKept DEF DataOK
<1> QED BY <1>1, <1>2, <1>3, <1>4 DEF WorkerStep

\* bmcweb, the clock, and a restart, which forgets threads and mutex alike.
LEMMA WorldKeepsMutex ==
  ASSUME MutexInv,
         \/ \E t \in Tokens, s \in StorageTypes : Login(t, s) \/ Logout(t, s)
         \/ Tick \/ Restart \/ UNCHANGED vars
  PROVE  ThreadsOK' /\ DataOK'
<1>0. ThreadsOK /\ DataOK
  BY MutexInvParts
<1>1. ASSUME NEW t \in Tokens, NEW s \in StorageTypes, Login(t, s) \/ Logout(t, s)
      PROVE  ThreadsOK' /\ DataOK'
  <2>1. /\ files' = [files EXCEPT ![s] = Json(bmcweb'[s])]
        /\ UNCHANGED <<mutex, worker, now, restarts, systemUuid, timedOut>>
    BY <1>1 DEF Login, Logout
  <2>2. bmcweb'[s] \subseteq AllTokens
    BY <1>1 DEF Login, Logout, MutexInv, FreshInv, LoginsInv, AllTokens
  <2>3. \A r \in StorageTypes : files'[r] = IF r = s THEN Json(bmcweb'[s]) ELSE files[r]
    BY <2>1 DEF MutexInv, FreshInv, LoginsInv
  <2>4. Json(bmcweb'[s]).state = "json" /\ Json(bmcweb'[s]).length \in Nat
    BY <2>2, WrittenFile
  <2>5. DataOK'
    BY <1>0, <2>1, <2>3, <2>4, DataKept DEF DataOK
  <2>6. ThreadsOK'
    BY <1>0, <2>1 DEF ThreadsOK
  <2> QED BY <2>5, <2>6
<1>2. CASE Tick
  <2>1. /\ UNCHANGED <<mutex, worker, files, systemUuid, timedOut, restarts>>
        /\ now < MaxTime /\ now' = now + 1
    BY <1>2 DEF Tick
  <2> QED BY <1>0, <2>1, SessionAssumption DEF ThreadsOK, DataOK
<1>3. CASE Restart
  <2>1. /\ UNCHANGED <<files, now>> /\ systemUuid' = FALSE /\ timedOut' = {}
        /\ restarts < MaxRestarts /\ restarts' = restarts + 1
    BY <1>3 DEF Restart
  <2>2. DataOK'
    <3>1. restarts' \in 0..MaxRestarts
      BY <1>0, <2>1, SessionAssumption DEF DataOK
    <3> QED BY <1>0, <2>1, <3>1 DEF DataOK
  <2>3. mutex' = None /\ \A w \in Workers : worker'[w] = Idle
    BY <1>3 DEF Restart
  <2>4. ThreadsOK'
    BY <2>3, IdleOutside, SessionAssumption DEF ThreadsOK
  <2> QED BY <2>2, <2>4
<1>4. CASE UNCHANGED vars
  BY <1>0, <1>4 DEF vars, externalVars, ThreadsOK, DataOK
<1> QED BY <1>1, <1>2, <1>3, <1>4

LEMMA MutexInvInit == Init => MutexInv
<1> SUFFICES ASSUME Init PROVE MutexInv
  OBVIOUS
<1>1. DataOK
  <2>1. ASSUME NEW s \in StorageTypes
        PROVE  files[s].state \in {"missing", "garbled", "json"} /\ files[s].length \in Nat
    <3>1. files \in [StorageTypes -> [state : {"missing", "garbled", "json"},
                                     sessions : SUBSET Tokens, length : Nat]]
      BY SessionAssumption DEF Init
    <3> QED BY <3>1
  <2>2. systemUuid = FALSE /\ timedOut = {} /\ now = 0 /\ restarts = 0
    BY DEF Init
  <2>3. now \in 0..MaxTime /\ restarts \in 0..MaxRestarts
    BY <2>2, SessionAssumption
  <2> QED BY <2>1, <2>2, <2>3 DEF DataOK
<1>2. mutex = None /\ \A w \in Workers : worker[w] = Idle
  BY DEF Init
<1>3. ThreadsOK
  BY <1>2, IdleOutside, SessionAssumption DEF ThreadsOK
<1> QED BY <1>1, <1>3, FreshInvInit, MutexInvParts

LEMMA MutexInvNext == ASSUME MutexInv, [Next]_vars PROVE MutexInv'
<1>1. FreshInv'
  BY FreshInvNext DEF MutexInv
<1>2. ASSUME NEW w \in Workers, Arrive(w) \/ WorkerStep(w) PROVE ThreadsOK' /\ DataOK'
  BY <1>2, WorkerKeepsData, ReadDataKeepsMutex, CommitKeepsMutex, AuthKeepsMutex,
     RequestKeepsMutex
  DEF WorkerStep
<1>3. ThreadsOK' /\ DataOK'
  BY <1>2, WorldKeepsMutex DEF Next
<1>4. (MutexInv <=> FreshInv /\ ThreadsOK /\ DataOK)'
  BY MutexInvParts, PTL
<1> QED BY <1>1, <1>3, <1>4

\* At most one thread is in readData, and the mutex is held exactly as long as one
\* is there: over a file that does not parse, the commit of a new uuid in the
\* middle of the loop, and a restart, for any number of threads and requests.
THEOREM MutexHeldInside == Spec => []SessionTypeOK
<1>1. MutexInv /\ [Next]_vars => MutexInv'
  BY MutexInvNext
<1>2. MutexInv => SessionTypeOK
  BY DEF MutexInv
<1> QED BY <1>1, <1>2, MutexInvInit, PTL DEF Spec
=============================================================================
