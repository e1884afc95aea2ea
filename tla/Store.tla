------------------------------- MODULE Store -------------------------------
(***************************************************************************)
(* The users and the devices of the store (store.go), which it keeps in    *)
(* memory and writes as a whole to gateway-data.json after every change,   *)
(* and whoever uses them: web requests that register a user, edit a        *)
(* profile, rename a device or list the devices (webmgmt.go, web.go),      *)
(* logins of devices (wssession.go), their reports (reporthandler.go) and  *)
(* the start of the process (openp2p.go).                                  *)
(*                                                                         *)
(* Every method of the store holds its lock from the first access to the   *)
(* end of the save, so that it is one step here; a handler that calls two  *)
(* methods is two steps.  The sessions are those of SessionRegistry, which *)
(* module Session implements.                                              *)
(*                                                                         *)
(* A user's token is a hash of the name and the password: it is modelled   *)
(* by the two.  Of a user's record there is the password, of a device's    *)
(* its name, user and Addtime (Remark is kept in the same way).            *)
(***************************************************************************)
EXTENDS Integers, FiniteSets

CONSTANTS
  User,        \* user names
  BuiltIn,     \* gUser, the user of the environment
  Password,    \* passwords that checkPasswordStrength accepts
  EnvPassword, \* those the environment gives the built-in user
  Name,        \* device names
  Sess,        \* the sessions of devices
  nodeID,      \* nodeID[s]: the name of the device that opens session s
  NoSess,      \* no session
  None,        \* no record
  Req,         \* web requests that register a user or list devices
  MaxCreated,  \* bound of the model: device records created
  MaxStarts    \* bound of the model: starts of the process after the first

ASSUME StoreAssumption ==
  /\ BuiltIn \in User /\ EnvPassword \subseteq Password
  /\ nodeID \in [Sess -> Name] /\ NoSess \notin Sess
  /\ MaxCreated \in Nat /\ MaxStarts \in Nat

DeviceRec == [name : Name, user : User, addtime : 1..MaxCreated]

ASSUME NoneAssumption == None \notin Password \cup DeviceRec

VARIABLES
  users,        \* data.Users, as far as the passwords
  devices,      \* data.Devices
  disk,         \* the users and devices in gateway-data.json
  created,      \* device records created so far: the clock of Addtime
  starts,       \* starts of the process after the first
  allSessions,  \* the map of the session manager
  life,         \* of its sessions
  user,         \* the user each session belongs to
  login,        \* where handleLogin is for each session
  reports,      \* sessions with a basic report in MsgQueue or at a worker
  pc,           \* where each web request is
  arg,          \* its user and, in a registration, password
  online,       \* a listing: the user's devices that have a session
  listed,       \* a listing: the devices it has answered
  granted,      \* history: the registrations of each user that succeeded
  known,        \* history: <<u, n>> if u has used the device name n
  expected      \* history: devices a listing has to name

regVars   == <<allSessions, life>>
sessVars  == <<regVars, user, login, reports>>
storeVars == <<users, devices, disk, created>>
reqVars   == <<pc, arg, online, listed, expected>>
vars == <<storeVars, sessVars, reqVars, starts, granted, known>>

Registry == INSTANCE SessionRegistry WITH NodeID <- Name

TypeOK ==
  /\ users \in [User -> Password \cup {None}]
  /\ devices \in [Name -> DeviceRec \cup {None}]
  /\ disk \in [users : [User -> Password \cup {None}], devices : [Name -> DeviceRec \cup {None}]]
  /\ created \in 0..MaxCreated /\ starts \in 0..MaxStarts
  /\ Registry!RegistryTypeOK
  /\ user \in [Sess -> User]
  /\ login \in [Sess -> {"new", "persist", "done"}]
  /\ reports \in SUBSET Sess
  /\ pc \in [Req -> {"new", "add", "list", "done"}]
  /\ arg \in [Req -> [user : User, password : Password \cup {None}]]
  /\ online \in [Req -> SUBSET Name] /\ listed \in [Req -> SUBSET Name]
  /\ expected \in [Req -> SUBSET Name]
  /\ granted \in [User -> SUBSET (Req \X Password)]
  /\ known \in SUBSET (User \X Name)

----------------------------------------------------------------------------
(* Store.save: the file becomes what is in memory, or stays as it was: an  *)
(* error is logged and ignored, and a process that dies on the way leaves  *)
(* the old file, since the new one is a rename away.                       *)
Save(us, ds) == disk' \in {disk, [users |-> us, devices |-> ds]}

(* The user's record is in the file with its password, the device's as     *)
(* that of the same device.                                                *)
UserSaved(u) == users[u] # None /\ disk.users[u] = users[u]

DeviceSaved(n) ==
  /\ devices[n] # None /\ disk.devices[n] # None
  /\ disk.devices[n].addtime = devices[n].addtime

(* ensureUser enters the built-in user, or gives the one that is there the *)
(* password of the environment.                                            *)
EnsureUser(us, p) == [us EXCEPT ![BuiltIn] = p]

NoUsers == [u \in User |-> None]
NoDevices == [n \in Name |-> None]
Idle == [user |-> BuiltIn, password |-> None]

(* The first start finds no file.                                          *)
Init ==
  /\ \E p \in EnvPassword : users = EnsureUser(NoUsers, p)
  /\ devices = NoDevices
  /\ disk \in {[users |-> us, devices |-> NoDevices] : us \in {NoUsers, users}}
  /\ created = 0 /\ starts = 0
  /\ Registry!RegistryInit
  /\ user = [s \in Sess |-> BuiltIn] /\ login = [s \in Sess |-> "new"] /\ reports = {}
  /\ pc = [r \in Req |-> "new"] /\ arg = [r \in Req |-> Idle]
  /\ online = [r \in Req |-> {}] /\ listed = [r \in Req |-> {}]
  /\ granted = [u \in User |-> {}] /\ known = {} /\ expected = [r \in Req |-> {}]

----------------------------------------------------------------------------
(* registerUser tests whether the name is taken ...                        *)
RegisterTest(r, u, p) ==
  /\ pc[r] = "new" /\ users[u] = None
  /\ pc' = [pc EXCEPT ![r] = "add"]
  /\ arg' = [arg EXCEPT ![r] = [user |-> u, password |-> p]]
  /\ UNCHANGED <<storeVars, sessVars, online, listed, expected, starts, granted, known>>

(* Mutant: addUser relies on the test of its caller.                       *)
AddUserUntested(r) ==
  /\ pc[r] = "add"
  /\ LET u == arg[r].user IN
     /\ users' = [users EXCEPT ![u] = arg[r].password]
     /\ granted' = [granted EXCEPT ![u] = @ \cup {<<r, arg[r].password>>}]
  /\ Save(users', devices)
  /\ pc' = [pc EXCEPT ![r] = "done"] /\ arg' = [arg EXCEPT ![r] = Idle]
  /\ UNCHANGED <<devices, created, sessVars, online, listed, expected, starts, known>>

(* ... and calls addUser, which tests again: the user is added and saved,  *)
(* or the request is answered "user already exists".                       *)
AddUser(r) ==
  /\ pc[r] = "add"
  /\ LET u == arg[r].user IN
     \/ /\ users[u] = None
        /\ users' = [users EXCEPT ![u] = arg[r].password]
        /\ granted' = [granted EXCEPT ![u] = @ \cup {<<r, arg[r].password>>}]
        /\ Save(users', devices)
     \/ users[u] # None /\ UNCHANGED <<users, granted, disk>>
  /\ pc' = [pc EXCEPT ![r] = "done"] /\ arg' = [arg EXCEPT ![r] = Idle]
  /\ UNCHANGED <<devices, created, sessVars, online, listed, expected, starts, known>>

(* updateProfile changes what is not tracked here, and saves all there is. *)
UpdateProfile(u) ==
  /\ users[u] # None
  /\ Save(users, devices)
  /\ UNCHANGED <<users, devices, created, sessVars, reqVars, starts, granted, known>>

----------------------------------------------------------------------------
(* Mutant: the Addtime of the record that is there is not looked at.       *)
UpsertFresh(n, u) ==
  /\ created < MaxCreated /\ created' = created + 1
  /\ devices' = [devices EXCEPT ![n] = [name |-> n, user |-> u, addtime |-> created + 1]]

(* Mutant: a record that is new is not given the time of now.              *)
UpsertTimeless(n, u) ==
  /\ devices' = [devices EXCEPT ![n] =
       [name |-> n, user |-> u, addtime |-> IF @ # None THEN @.addtime ELSE 0]]
  /\ UNCHANGED created

(* upsertDevice: a new record replaces the one of the name and keeps its   *)
(* Addtime; a name without a record gets the time of now.                  *)
Upsert(n, u) ==
  \/ /\ devices[n] # None
     /\ devices' = [devices EXCEPT ![n] = [name |-> n, user |-> u, addtime |-> @.addtime]]
     /\ UNCHANGED created
  \/ /\ devices[n] = None
     /\ created < MaxCreated /\ created' = created + 1
     /\ devices' = [devices EXCEPT ![n] = [name |-> n, user |-> u, addtime |-> created + 1]]

(* handleLogin finds the user of the token and enters the session in the   *)
(* map.                                                                    *)
Login(s, u) ==
  /\ login[s] = "new" /\ users[u] # None
  /\ Registry!Login(s)
  /\ user' = [user EXCEPT ![s] = u]
  /\ login' = [login EXCEPT ![s] = "persist"]
  /\ known' = known \cup {<<u, nodeID[s]>>}
  /\ UNCHANGED <<storeVars, reports, reqVars, starts, granted>>

(* It stores the device and starts the session's loops.                    *)
PersistDevice(s) ==
  /\ login[s] = "persist"
  /\ Upsert(nodeID[s], user[s]) /\ Save(users, devices')
  /\ login' = [login EXCEPT ![s] = "done"]
  /\ known' = known \cup {<<user[s], nodeID[s]>>}
  /\ UNCHANGED <<users, regVars, user, reports, reqVars, starts, granted>>

(* readLoop takes a basic report of the device.                            *)
SendReport(s) ==
  /\ login[s] = "done" /\ life[s] = "registered"
  /\ reports' = reports \cup {s}
  /\ UNCHANGED <<storeVars, regVars, user, login, reqVars, starts, granted, known>>

(* A worker handles it: the session may have ended or been replaced, and   *)
(* the device been renamed, since.                                         *)
HandleReport(s) ==
  /\ s \in reports
  /\ Upsert(nodeID[s], user[s]) /\ Save(users, devices')
  /\ reports' = reports \ {s}
  /\ known' = known \cup {<<user[s], nodeID[s]>>}
  /\ UNCHANGED <<users, regVars, user, login, reqVars, starts, granted>>

(* Mutant: the loops are started before the device is stored.              *)
LogoutEarly(s) ==
  /\ login[s] \in {"persist", "done"}
  /\ Registry!Logout(s)
  /\ login' = [login EXCEPT ![s] = "done"]
  /\ UNCHANGED <<storeVars, user, reports, reqVars, starts, granted, known>>

(* The session ends.                                                       *)
Logout(s) ==
  /\ login[s] = "done"
  /\ Registry!Logout(s)
  /\ UNCHANGED <<storeVars, user, login, reports, reqVars, starts, granted, known>>

(* renameDevice moves a record to a name that may have one, which is lost. *)
Renamed(old, new) ==
  [devices EXCEPT ![old] = None, ![new] = [devices[old] EXCEPT !.name = new]]

(* editNode pushes the change to the device, if it is online, and renames  *)
(* its record.  Sessions of the old name go on under it.                   *)
RenameDevice(old, new) ==
  /\ old # new /\ devices[old] # None
  /\ devices' = Renamed(old, new)
  /\ Save(users, devices')
  /\ known' = (known \ (User \X {old})) \cup {<<devices[old].user, new>>}
  /\ expected' = [r \in Req |-> expected[r] \ {old}]
  /\ UNCHANGED <<users, created, sessVars, pc, arg, online, listed, starts, granted>>

----------------------------------------------------------------------------
(* Names only u has used.                                                  *)
Own(u) == {n \in Name : {v \in User : <<v, n>> \in known} = {u}}

(* listDevices takes the user's devices that have a session from the map   *)
(* ...                                                                     *)
ListOnline(r, u) ==
  /\ pc[r] = "new" /\ users[u] # None
  /\ pc' = [pc EXCEPT ![r] = "list"]
  /\ arg' = [arg EXCEPT ![r].user = u]
  /\ online' = [online EXCEPT ![r] =
       {nodeID[s] : s \in {t \in Sess : allSessions[nodeID[t]] = t /\ user[t] = u}}]
  /\ expected' = [expected EXCEPT ![r] = Own(u)]
  /\ UNCHANGED <<storeVars, sessVars, listed, starts, granted, known>>

(* listDevicesByUser: the records of the user's devices.                   *)
RecordsOf(u) == {d \in {devices[n] : n \in Name} \ {None} : d.user = u}

(* ... and adds those in the store that are not among them.  (It reads the *)
(* names of the records it got from the store after the lock is released;  *)
(* that a rename comes in between is not modelled.)                        *)
ListStored(r) ==
  /\ pc[r] = "list"
  /\ pc' = [pc EXCEPT ![r] = "done"]
  /\ listed' = [listed EXCEPT ![r] = online[r] \cup {d.name : d \in RecordsOf(arg[r].user)}]
  /\ expected' = [expected EXCEPT ![r] = @ \cap Own(arg[r].user)]
  /\ UNCHANGED <<storeVars, sessVars, arg, online, starts, granted, known>>

----------------------------------------------------------------------------
(* The process ends at any point, and with it all sessions and requests.   *)
(* A new one loads the file and calls ensureUser with the password its     *)
(* environment has; a file that cannot be read counts as none, and is      *)
(* overwritten by the save of ensureUser.                                  *)
Start(readable, p) ==
  /\ starts < MaxStarts /\ starts' = starts + 1
  /\ users' = EnsureUser(IF readable THEN disk.users ELSE NoUsers, p)
  /\ devices' = IF readable THEN disk.devices ELSE NoDevices
  /\ Save(users', devices')
  /\ allSessions' = [n \in Name |-> NoSess] /\ life' = [s \in Sess |-> "new"]
  /\ user' = [s \in Sess |-> BuiltIn] /\ login' = [s \in Sess |-> "new"] /\ reports' = {}
  /\ pc' = [r \in Req |-> IF pc[r] = "new" THEN "new" ELSE "done"]
  /\ arg' = [r \in Req |-> Idle]
  /\ online' = [r \in Req |-> {}] /\ listed' = [r \in Req |-> {}]
  /\ granted' = [u \in User |-> IF readable /\ UserSaved(u) THEN granted[u] ELSE {}]
  /\ known' = {x \in User \X Name : devices'[x[2]] # None /\ devices'[x[2]].user = x[1]}
  /\ expected' = [r \in Req |-> {}]
  /\ UNCHANGED created

RequestStep(r) ==
  \/ \E u \in User : ListOnline(r, u) \/ \E p \in Password : RegisterTest(r, u, p)
  \/ AddUser(r) \/ ListStored(r)

SessionStep(s) ==
  \/ \E u \in User : Login(s, u)
  \/ PersistDevice(s) \/ SendReport(s) \/ HandleReport(s) \/ Logout(s)

Next ==
  \/ \E r \in Req : RequestStep(r)
  \/ \E s \in Sess : SessionStep(s)
  \/ \E u \in User : UpdateProfile(u)
  \/ \E old, new \in Name : RenameDevice(old, new)
  \/ \E readable \in BOOLEAN, p \in EnvPassword : Start(readable, p)

Spec == Init /\ [][Next]_vars

----------------------------------------------------------------------------
(* Of all registrations of a name one at most succeeds, although each has  *)
(* found the name free, and its password is the user's from then on        *)
(* (webmgmt.go:31, store.go:153): across restarts too, unless the user was *)
(* lost because no save has succeeded.                                     *)
RegisteredOnce ==
  \A u \in User : Cardinality(granted[u]) <= 1
                  /\ \A g \in granted[u] : users[u] = g[2]

(* After the step n's record is m's, with the Addtime it has: in memory,   *)
(* and in the file.                                                        *)
KeptAs(n, m) == devices'[m] # None /\ devices'[m].addtime = devices[n].addtime

FiledAs(n, m) ==
  disk'.devices[m] # None /\ disk'.devices[m].addtime = devices[n].addtime

(* What is in the file as it is in memory is lost from neither, be it a    *)
(* user with the password or a device with its Addtime: not to logins,     *)
(* reports of sessions that are over, failed saves or restarts.  A device  *)
(* is replaced by a rename onto its name, and of one that is renamed the   *)
(* file has the old name until a save succeeds (store.go:198-239); a start *)
(* that cannot read the file begins with nothing, and of that nothing is   *)
(* said (store.go:92-102).                                                 *)
Kept ==
  \/ \E p \in EnvPassword : Start(FALSE, p)
  \/ /\ \A u \in User \ {BuiltIn} :
          UserSaved(u) => users'[u] = users[u] /\ disk'.users[u] = users[u]
     /\ \A n \in Name : DeviceSaved(n) =>
          \/ KeptAs(n, n) /\ FiledAs(n, n)
          \/ \E m \in Name :
               \/ RenameDevice(m, n)
               \/ RenameDevice(n, m) /\ KeptAs(n, m) /\ (FiledAs(n, n) \/ FiledAs(n, m))

SavedKept == [][Kept]_vars

(* A device that has logged in, with or without a session by now, is on    *)
(* the list of its user's devices, though the list is put together from    *)
(* the map and the store at two moments, and logins write the one before   *)
(* the other (web.go:220, 241; wssession.go:141-145).  Not so names that   *)
(* two users have used or that are renamed meanwhile.                      *)
ListingComplete == \A r \in Req : pc[r] = "done" => expected[r] \subseteq listed[r]
=============================================================================
