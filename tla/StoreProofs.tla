---------------------------- MODULE StoreProofs ----------------------------
(***************************************************************************)
(* Proofs about module Store, for every set of users, passwords, devices,  *)
(* sessions and requests and every number of restarts.                     *)
(***************************************************************************)
EXTENDS Store, FiniteSetTheorems, TLAPS

Users == [User -> Password \cup {None}]
Devices == [Name -> DeviceRec \cup {None}]

(* A request that is about to add a user has a password.                   *)
ArgOK == \A r \in Req : pc[r] = "add" => arg[r].password \in Password

(* A registration that has succeeded is the only one of its user, and its  *)
(* password the user's; the built-in user, who is never absent, has none.  *)
GrantedOK ==
  /\ users[BuiltIn] # None
  /\ \A u \in User : \A g \in granted[u] : users[u] = g[2] /\ users[u] # None /\ u # BuiltIn
  /\ \A u \in User : \A g, h \in granted[u] : g = h

(* A record is filed under its name, in memory and in the file.            *)
Filed(ds) == \A n \in Name : ds[n] # None => ds[n].name = n

(* A name that has been used has a record of one who has used it, or a     *)
(* session of one in the map that is about to store it.                    *)
KnownOK ==
  /\ Filed(devices) /\ Filed(disk.devices)
  /\ \A n \in Name : devices[n] # None => <<devices[n].user, n>> \in known
  /\ \A n \in Name, u \in User : (devices[n] = None /\ <<u, n>> \in known) =>
       /\ allSessions[n] \in Sess /\ nodeID[allSessions[n]] = n
       /\ login[allSessions[n]] = "persist" /\ <<user[allSessions[n]], n>> \in known

(* What a listing has to name it has seen online, or the store has.        *)
ListingOK ==
  \A r \in Req :
    /\ pc[r] \in {"new", "add"} => expected[r] = {}
    /\ pc[r] = "list" => \A n \in expected[r] : n \in online[r] \/ devices[n] # None
    /\ pc[r] = "done" => expected[r] \subseteq listed[r]

USE StoreAssumption, NoneAssumption DEF Registry!RegistryTypeOK, Users, Devices

----------------------------------------------------------------------------
(* Changing a function at one argument keeps its type.                     *)
LEMMA ExceptType ==
  ASSUME NEW S, NEW T, NEW f \in [S -> T], NEW s \in S, NEW v \in T
  PROVE  [f EXCEPT ![s] = v] \in [S -> T]
  OBVIOUS

(* The record of a name, if it has one, is a device's record.              *)
LEMMA RecordType ==
  ASSUME NEW ds \in Devices, NEW n \in Name, ds[n] # None
  PROVE  ds[n] \in DeviceRec
  OBVIOUS

(* The fields of a device's record.                                        *)
LEMMA RecordFields ==
  ASSUME NEW d \in DeviceRec
  PROVE  d.name \in Name /\ d.user \in User /\ d.addtime \in 1..MaxCreated
  BY DEF DeviceRec

(* What upsertDevice does to the records: one of the name, with the user   *)
(* given and the Addtime of the one before; nothing else changes.          *)
LEMMA UpsertEffect ==
  ASSUME devices \in Devices, created \in 0..MaxCreated,
         NEW n \in Name, NEW u \in User, Upsert(n, u)
  PROVE  /\ devices' \in Devices /\ created' \in 0..MaxCreated
         /\ devices'[n] \in DeviceRec /\ devices'[n].name = n /\ devices'[n].user = u
         /\ devices[n] # None => devices'[n].addtime = devices[n].addtime
         /\ \A m \in Name \ {n} : devices'[m] = devices[m]
<1>1. CASE devices[n] # None
  <2> DEFINE d == [name |-> n, user |-> u, addtime |-> devices[n].addtime]
  <2>1. d \in DeviceRec
    BY <1>1, RecordType, RecordFields DEF DeviceRec
  <2>2. devices' = [devices EXCEPT ![n] = d] /\ created' = created
    BY <1>1 DEF Upsert
  <2> QED
    BY <2>1, <2>2
<1>2. CASE devices[n] = None
  <2> DEFINE d == [name |-> n, user |-> u, addtime |-> created + 1]
  <2>1. created < MaxCreated /\ created' = created + 1
    BY <1>2 DEF Upsert
  <2>2. d \in DeviceRec
    BY <2>1 DEF DeviceRec
  <2>3. devices' = [devices EXCEPT ![n] = d]
    BY <1>2 DEF Upsert
  <2> QED
    BY <1>2, <2>1, <2>2, <2>3
<1> QED
  BY <1>1, <1>2

(* What a rename does to the records.                                      *)
LEMMA RenameEffect ==
  ASSUME devices \in Devices,
         NEW old \in Name, NEW new \in Name, RenameDevice(old, new)
  PROVE  /\ old # new /\ devices[old] \in DeviceRec
         /\ devices' \in Devices
         /\ devices'[old] = None
         /\ devices'[new] \in DeviceRec /\ devices'[new].name = new
         /\ devices'[new].user = devices[old].user
         /\ devices'[new].addtime = devices[old].addtime
         /\ \A m \in Name \ {old, new} : devices'[m] = devices[m]
<1> DEFINE d == [devices[old] EXCEPT !.name = new]
<1>1. old # new /\ devices[old] # None /\ devices[old] \in DeviceRec
  BY RecordType DEF RenameDevice
<1>2. /\ d \in DeviceRec /\ d.name = new /\ d.user = devices[old].user
      /\ d.addtime = devices[old].addtime
  BY <1>1 DEF DeviceRec
<1>3. devices' = [devices EXCEPT ![old] = None, ![new] = d]
  BY DEF RenameDevice, Renamed
<1> HIDE DEF d
<1>4. /\ devices'[old] = None /\ devices'[new] = d
      /\ devices' \in Devices
      /\ \A m \in Name \ {old, new} : devices'[m] = devices[m]
  BY <1>1, <1>2, <1>3
<1> QED
  BY <1>1, <1>2, <1>4 DEF d

(* What upserting and renaming leave of the types, and what a save does to *)
(* the file.                                                               *)
LEMMA SaveType ==
  ASSUME NEW us \in Users, NEW ds \in Devices,
         disk \in [users : Users, devices : Devices],
         Save(us, ds)
  PROVE  /\ disk' \in [users : Users,
                       devices : Devices]
         /\ disk' = disk \/ (disk'.users = us /\ disk'.devices = ds)
  BY DEF Save

----------------------------------------------------------------------------
(* Types hold at first, and every operation keeps them.                    *)
LEMMA TypeInit == Init => TypeOK /\ ArgOK
<1> SUFFICES ASSUME Init PROVE TypeOK /\ ArgOK
  OBVIOUS
<1>1. NoUsers \in Users /\ NoDevices \in Devices
  BY DEF NoUsers, NoDevices
<1>2. users \in Users
  BY <1>1 DEF Init, EnsureUser
<1>3. devices \in Devices /\ disk \in [users : Users, devices : Devices]
  BY <1>1, <1>2 DEF Init
<1>4. Registry!RegistryTypeOK
  BY DEF Init, Registry!RegistryInit
<1>5. arg \in [Req -> [user : User, password : Password \cup {None}]]
  BY DEF Init, Idle
<1>6. pc \in [Req -> {"new", "add", "list", "done"}] /\ ArgOK
  BY DEF Init, ArgOK
<1> QED
  BY <1>2, <1>3, <1>4, <1>5, <1>6 DEF Init, TypeOK

(* See TypeInit: one step per operation.                                   *)
LEMMA TypeStep ==
  ASSUME TypeOK, ArgOK, [Next]_vars
  PROVE  TypeOK' /\ ArgOK'
<1>1. ASSUME NEW r \in Req, NEW u \in User, NEW p \in Password, RegisterTest(r, u, p)
      PROVE  TypeOK' /\ ArgOK'
  <2>1. [user |-> u, password |-> p] \in [user : User, password : Password \cup {None}]
    OBVIOUS
  <2>2. /\ arg' \in [Req -> [user : User, password : Password \cup {None}]]
        /\ pc' \in [Req -> {"new", "add", "list", "done"}] /\ ArgOK'
    BY <1>1, <2>1 DEF RegisterTest, TypeOK, ArgOK
  <2> QED
    BY <1>1, <2>2 DEF RegisterTest, TypeOK, storeVars, sessVars, regVars
<1>2. ASSUME NEW r \in Req, AddUser(r)
      PROVE  TypeOK' /\ ArgOK'
  <2> DEFINE u == arg[r].user
             p == arg[r].password
  <2>1. u \in User /\ p \in Password
    BY <1>2 DEF AddUser, TypeOK, ArgOK
  <2>2. users' \in Users /\ granted' \in [User -> SUBSET (Req \X Password)]
    <3>1. CASE users' = [users EXCEPT ![u] = p] /\ granted' = [granted EXCEPT ![u] = @ \cup {<<r, p>>}]
      BY <2>1, <3>1 DEF TypeOK
    <3>2. CASE UNCHANGED <<users, granted>>
      BY <3>2 DEF TypeOK
    <3> QED
      BY <1>2, <3>1, <3>2 DEF AddUser
  <2>3. disk' \in [users : Users, devices : Devices]
    <3>1. CASE Save(users', devices)
      BY <2>2, <3>1, SaveType DEF TypeOK
    <3>2. CASE UNCHANGED disk
      BY <3>2 DEF TypeOK
    <3> QED
      BY <1>2, <3>1, <3>2 DEF AddUser
  <2>4. /\ arg' \in [Req -> [user : User, password : Password \cup {None}]]
        /\ pc' \in [Req -> {"new", "add", "list", "done"}] /\ ArgOK'
    BY <1>2 DEF AddUser, TypeOK, ArgOK, Idle
  <2> QED
    BY <1>2, <2>2, <2>3, <2>4 DEF AddUser, TypeOK, sessVars, regVars
<1>3. ASSUME NEW u \in User, UpdateProfile(u)
      PROVE  TypeOK' /\ ArgOK'
  <2>1. disk' \in [users : Users, devices : Devices]
    BY <1>3, SaveType DEF UpdateProfile, TypeOK
  <2> QED
    BY <1>3, <2>1 DEF UpdateProfile, TypeOK, ArgOK, sessVars, regVars, reqVars
<1>4. ASSUME NEW s \in Sess, NEW u \in User, Login(s, u)
      PROVE  TypeOK' /\ ArgOK'
  <2>1. Registry!RegistryTypeOK'
    BY <1>4 DEF Login, Registry!Login, TypeOK
  <2>2. known' \in SUBSET (User \X Name)
    BY <1>4 DEF Login, TypeOK
  <2> QED
    BY <1>4, <2>1, <2>2 DEF Login, TypeOK, ArgOK, storeVars, reqVars
<1>5. ASSUME NEW s \in Sess, PersistDevice(s) \/ HandleReport(s)
      PROVE  TypeOK' /\ ArgOK'
  <2>1. nodeID[s] \in Name /\ user[s] \in User
    BY DEF TypeOK
  <2>2. devices' \in Devices /\ created' \in 0..MaxCreated
    BY <1>5, <2>1, UpsertEffect DEF PersistDevice, HandleReport, TypeOK
  <2>3. disk' \in [users : Users, devices : Devices]
    BY <1>5, <2>2, SaveType DEF PersistDevice, HandleReport, TypeOK
  <2>4. known' \in SUBSET (User \X Name)
    BY <1>5, <2>1 DEF PersistDevice, HandleReport, TypeOK
  <2>5. login' \in [Sess -> {"new", "persist", "done"}] /\ reports' \in SUBSET Sess
    BY <1>5 DEF PersistDevice, HandleReport, TypeOK
  <2> QED
    BY <1>5, <2>2, <2>3, <2>4, <2>5
    DEF PersistDevice, HandleReport, TypeOK, ArgOK, regVars, reqVars
<1>6. ASSUME NEW s \in Sess, SendReport(s)
      PROVE  TypeOK' /\ ArgOK'
  BY <1>6 DEF SendReport, TypeOK, ArgOK, storeVars, regVars, reqVars
<1>7. ASSUME NEW s \in Sess, Logout(s)
      PROVE  TypeOK' /\ ArgOK'
  <2>1. Registry!RegistryTypeOK'
    BY <1>7 DEF Logout, Registry!Logout, Registry!Without, TypeOK
  <2> QED
    BY <1>7, <2>1 DEF Logout, TypeOK, ArgOK, storeVars, reqVars
<1>8. ASSUME NEW old \in Name, NEW new \in Name, RenameDevice(old, new)
      PROVE  TypeOK' /\ ArgOK'
  <2>1. devices' \in Devices /\ devices[old].user \in User
    BY <1>8, RenameEffect, RecordFields DEF TypeOK
  <2>2. disk' \in [users : Users, devices : Devices]
    BY <1>8, <2>1, SaveType DEF RenameDevice, TypeOK
  <2>3. known' \in SUBSET (User \X Name)
    BY <1>8, <2>1 DEF RenameDevice, TypeOK
  <2>4. expected' \in [Req -> SUBSET Name]
    BY <1>8 DEF RenameDevice, TypeOK
  <2> QED
    BY <1>8, <2>1, <2>2, <2>3, <2>4 DEF RenameDevice, TypeOK, ArgOK, sessVars, regVars
<1>9. ASSUME NEW r \in Req, NEW u \in User, ListOnline(r, u)
      PROVE  TypeOK' /\ ArgOK'
  <2>1. Own(u) \in SUBSET Name
    BY DEF Own
  <2>2. online' \in [Req -> SUBSET Name] /\ expected' \in [Req -> SUBSET Name]
    BY <1>9, <2>1 DEF ListOnline, TypeOK
  <2>3. /\ arg' \in [Req -> [user : User, password : Password \cup {None}]]
        /\ pc' \in [Req -> {"new", "add", "list", "done"}] /\ ArgOK'
    BY <1>9 DEF ListOnline, TypeOK, ArgOK
  <2> QED
    BY <1>9, <2>2, <2>3 DEF ListOnline, TypeOK, storeVars, sessVars, regVars
<1>10. ASSUME NEW r \in Req, ListStored(r)
       PROVE  TypeOK' /\ ArgOK'
  <2>1. {d.name : d \in RecordsOf(arg[r].user)} \in SUBSET Name
    <3>1. ASSUME NEW d \in RecordsOf(arg[r].user)
          PROVE  d.name \in Name
      BY <3>1, RecordFields DEF RecordsOf, TypeOK
    <3> QED
      BY <3>1
  <2>2. listed' \in [Req -> SUBSET Name]
    BY <1>10, <2>1 DEF ListStored, TypeOK
  <2>3. expected' \in [Req -> SUBSET Name]
    BY <1>10 DEF ListStored, TypeOK
  <2>4. pc' \in [Req -> {"new", "add", "list", "done"}] /\ ArgOK'
    BY <1>10 DEF ListStored, TypeOK, ArgOK
  <2> QED
    BY <1>10, <2>2, <2>3, <2>4 DEF ListStored, TypeOK, storeVars, sessVars, regVars
<1>11. ASSUME NEW readable \in BOOLEAN, NEW p \in EnvPassword, Start(readable, p)
       PROVE  TypeOK' /\ ArgOK'
  <2>1. users' \in Users /\ devices' \in Devices
    BY <1>11 DEF Start, EnsureUser, NoUsers, NoDevices, TypeOK
  <2>2. disk' \in [users : Users, devices : Devices]
    BY <1>11, <2>1, SaveType DEF Start, TypeOK
  <2>3. /\ arg' \in [Req -> [user : User, password : Password \cup {None}]]
        /\ pc' \in [Req -> {"new", "add", "list", "done"}] /\ ArgOK'
    BY <1>11 DEF Start, TypeOK, ArgOK, Idle
  <2>4. granted' \in [User -> SUBSET (Req \X Password)]
    BY <1>11 DEF Start, TypeOK
  <2>5. known' \in SUBSET (User \X Name)
    BY <1>11 DEF Start
  <2>6. starts' \in 0..MaxStarts /\ created' \in 0..MaxCreated
    BY <1>11 DEF Start, TypeOK
  <2>7. Registry!RegistryTypeOK'
    BY <1>11 DEF Start
  <2> QED
    BY <1>11, <2>1, <2>2, <2>3, <2>4, <2>5, <2>6, <2>7 DEF Start, TypeOK
<1>12. CASE UNCHANGED vars
  BY <1>12 DEF vars, storeVars, sessVars, regVars, reqVars, TypeOK, ArgOK
<1> QED
  BY <1>1, <1>2, <1>3, <1>4, <1>5, <1>6, <1>7, <1>8, <1>9, <1>10, <1>11, <1>12
  DEF Next, RequestStep, SessionStep

(* The store's state is well typed: in particular every record has an      *)
(* Addtime (store.go:194-214).                                             *)
THEOREM StoreTypeCorrect == Spec => [](TypeOK /\ ArgOK)
<1>1. Init => TypeOK /\ ArgOK
  BY TypeInit
<1>2. (TypeOK /\ ArgOK) /\ [Next]_vars => (TypeOK /\ ArgOK)'
  BY TypeStep
<1> QED
  BY <1>1, <1>2, PTL DEF Spec

----------------------------------------------------------------------------
(* Registrations.                                                          *)
LEMMA GrantedInit == Init => GrantedOK
  BY DEF Init, GrantedOK, EnsureUser, NoUsers

(* Only addUser and a restart change the users.                            *)
LEMMA GrantedStep ==
  ASSUME TypeOK, ArgOK, GrantedOK, [Next]_vars
  PROVE  GrantedOK'
<1>1. ASSUME NEW r \in Req, AddUser(r)
      PROVE  GrantedOK'
  <2> DEFINE u == arg[r].user
             p == arg[r].password
  <2>1. u \in User /\ p \in Password /\ p # None
    BY <1>1 DEF AddUser, TypeOK, ArgOK
  <2>2. CASE /\ users[u] = None /\ users' = [users EXCEPT ![u] = p]
             /\ granted' = [granted EXCEPT ![u] = @ \cup {<<r, p>>}]
    <3>1. granted[u] = {} /\ u # BuiltIn
      BY <2>1, <2>2 DEF GrantedOK
    <3>2. granted'[u] = {<<r, p>>} /\ users'[u] = p
      BY <2>1, <2>2, <3>1 DEF TypeOK
    <3>3. \A v \in User \ {u} : granted'[v] = granted[v] /\ users'[v] = users[v]
      BY <2>1, <2>2 DEF TypeOK
    <3> QED
      BY <2>1, <3>1, <3>2, <3>3 DEF GrantedOK
  <2>3. CASE UNCHANGED <<users, granted>>
    BY <2>3 DEF GrantedOK
  <2> QED
    BY <1>1, <2>2, <2>3 DEF AddUser
<1>2. ASSUME NEW readable \in BOOLEAN, NEW p \in EnvPassword, Start(readable, p)
      PROVE  GrantedOK'
  <2>1. users'[BuiltIn] = p /\ p # None
    BY <1>2 DEF Start, EnsureUser, NoUsers, TypeOK
  <2>2. ASSUME NEW u \in User, granted'[u] # {}
        PROVE  granted'[u] = granted[u] /\ u # BuiltIn /\ users'[u] = users[u]
    <3>1. readable /\ UserSaved(u) /\ granted'[u] = granted[u]
      BY <1>2, <2>2 DEF Start
    <3>2. u # BuiltIn
      BY <2>2, <3>1 DEF GrantedOK
    <3>3. users'[u] = disk.users[u]
      BY <1>2, <3>1, <3>2 DEF Start, EnsureUser, TypeOK
    <3> QED
      BY <3>1, <3>2, <3>3 DEF UserSaved
  <2> QED
    BY <2>1, <2>2 DEF GrantedOK
<1>3. CASE UNCHANGED <<users, granted>>
  BY <1>3 DEF GrantedOK
<1> QED
  BY <1>1, <1>2, <1>3
  DEF Next, RequestStep, SessionStep, vars, storeVars, RegisterTest, UpdateProfile, Login,
      PersistDevice, SendReport, HandleReport, Logout, RenameDevice, ListOnline, ListStored

(* Of all registrations of a name one at most succeeds, and its password   *)
(* is the user's from then on (webmgmt.go:31, store.go:153).               *)
THEOREM NameRegisteredOnce == Spec => []RegisteredOnce
<1>1. Init => GrantedOK
  BY GrantedInit
<1>2. (TypeOK /\ ArgOK) /\ GrantedOK /\ [Next]_vars => GrantedOK'
  BY GrantedStep
<1>3. GrantedOK => RegisteredOnce
  <2> SUFFICES ASSUME GrantedOK, NEW u \in User
               PROVE  Cardinality(granted[u]) <= 1
    BY DEF GrantedOK, RegisteredOnce
  <2>1. CASE granted[u] = {}
    BY <2>1, FS_EmptySet
  <2>2. CASE granted[u] # {}
    <3>1. PICK g \in granted[u] : TRUE
      BY <2>2
    <3>2. granted[u] = {g}
      BY <3>1 DEF GrantedOK
    <3> QED
      BY <3>2, FS_Singleton
  <2> QED
    BY <2>1, <2>2
<1> QED
  BY <1>1, <1>2, <1>3, StoreTypeCorrect, PTL DEF Spec

----------------------------------------------------------------------------
(* What is in the file as in memory, and stays in memory, stays in the     *)
(* file: it is written as a whole or not at all.                           *)
LEMMA FileFollows ==
  ASSUME disk' \in {disk, [users |-> users', devices |-> devices']}
  PROVE  /\ \A u \in User : UserSaved(u) /\ users'[u] = users[u] => disk'.users[u] = users[u]
         /\ \A n \in Name : DeviceSaved(n) /\ KeptAs(n, n) => FiledAs(n, n)
<1>1. CASE disk' = disk
  BY <1>1 DEF UserSaved, DeviceSaved, FiledAs
<1>2. CASE disk' = [users |-> users', devices |-> devices']
  <2>1. disk'.users = users' /\ disk'.devices = devices'
    BY <1>2
  <2> QED
    BY <2>1 DEF KeptAs, FiledAs
<1> QED
  BY <1>1, <1>2

(* Only logins, reports and renames change records, and a restart goes     *)
(* back to the file.                                                       *)
LEMMA KeptStep ==
  ASSUME TypeOK, ArgOK, [Next]_vars
  PROVE  Kept
<1>0. ASSUME disk' = disk \/ Save(users', devices'),
             \A u \in User \ {BuiltIn} : UserSaved(u) => users'[u] = users[u],
             \A n \in Name : DeviceSaved(n) => KeptAs(n, n)
      PROVE  Kept
  <2>1. disk' \in {disk, [users |-> users', devices |-> devices']}
    BY <1>0 DEF Save
  <2> QED
    BY <1>0, <2>1, FileFollows DEF Kept
<1>1. ASSUME UNCHANGED devices, disk' = disk \/ Save(users', devices'),
             \A u \in User \ {BuiltIn} : UserSaved(u) => users'[u] = users[u]
      PROVE  Kept
  <2>1. \A n \in Name : DeviceSaved(n) => KeptAs(n, n)
    BY <1>1 DEF KeptAs, DeviceSaved
  <2> QED
    BY <1>0, <1>1, <2>1
<1>2. ASSUME NEW r \in Req, AddUser(r)
      PROVE  Kept
  <2>1. \A u \in User : users[u] # None => users'[u] = users[u]
    BY <1>2 DEF AddUser, TypeOK
  <2>2. UNCHANGED devices /\ (disk' = disk \/ Save(users', devices'))
    BY <1>2 DEF AddUser, Save
  <2> QED
    BY <1>1, <2>1, <2>2 DEF UserSaved
<1>3. ASSUME NEW s \in Sess, PersistDevice(s) \/ HandleReport(s)
      PROVE  Kept
  <2>1. /\ nodeID[s] \in Name /\ user[s] \in User /\ UNCHANGED users
        /\ Save(users', devices')
    BY <1>3 DEF TypeOK, PersistDevice, HandleReport, Save
  <2>2. \A n \in Name : devices[n] # None => KeptAs(n, n)
    <3> DEFINE k == nodeID[s]
    <3>1. /\ devices'[k] \in DeviceRec
          /\ devices[k] # None => devices'[k].addtime = devices[k].addtime
          /\ \A m \in Name \ {k} : devices'[m] = devices[m]
      BY <1>3, <2>1, UpsertEffect DEF PersistDevice, HandleReport, TypeOK
    <3> QED
      BY <3>1 DEF KeptAs
  <2> QED
    BY <1>0, <2>1, <2>2 DEF DeviceSaved
<1>4. ASSUME NEW old \in Name, NEW new \in Name, RenameDevice(old, new)
      PROVE  Kept
  <2>1. /\ UNCHANGED users
        /\ disk' = disk \/ disk' = [users |-> users', devices |-> devices']
    BY <1>4 DEF RenameDevice, Save
  <2>2. /\ devices'[new] \in DeviceRec /\ devices'[new].addtime = devices[old].addtime
        /\ \A m \in Name \ {old, new} : devices'[m] = devices[m]
    BY <1>4, RenameEffect DEF TypeOK
  <2>3. KeptAs(old, new)
    BY <2>2 DEF KeptAs
  <2>4. DeviceSaved(old) => FiledAs(old, old) \/ FiledAs(old, new)
    <3>1. CASE disk' = disk
      BY <3>1 DEF DeviceSaved, FiledAs
    <3>2. CASE disk' = [users |-> users', devices |-> devices']
      <4>1. disk'.devices = devices'
        BY <3>2
      <4> QED
        BY <2>3, <4>1 DEF KeptAs, FiledAs
    <3> QED
      BY <2>1, <3>1, <3>2
  <2>5. \A u \in User : UserSaved(u) => disk'.users[u] = users[u]
    BY <2>1, FileFollows
  <2>6. \A n \in Name \ {old, new} : DeviceSaved(n) => KeptAs(n, n) /\ FiledAs(n, n)
    <3>1. \A n \in Name \ {old, new} : DeviceSaved(n) => KeptAs(n, n)
      BY <2>2 DEF KeptAs, DeviceSaved
    <3> QED
      BY <2>1, <3>1, FileFollows
  <2> QED
    BY <1>4, <2>1, <2>3, <2>4, <2>5, <2>6 DEF Kept
<1>5. ASSUME NEW p \in EnvPassword, Start(TRUE, p)
      PROVE  Kept
  <2>1. /\ devices' = disk.devices /\ \A u \in User \ {BuiltIn} : users'[u] = disk.users[u]
        /\ Save(users', devices')
    BY <1>5 DEF Start, EnsureUser, TypeOK
  <2>2. /\ \A u \in User \ {BuiltIn} : UserSaved(u) => users'[u] = users[u]
        /\ \A n \in Name : DeviceSaved(n) => KeptAs(n, n)
    BY <2>1 DEF KeptAs, UserSaved, DeviceSaved
  <2> QED
    BY <1>0, <2>1, <2>2
<1>6. ASSUME UNCHANGED <<users, devices>>, disk' = disk \/ Save(users, devices)
      PROVE  Kept
  <2>1. disk' = disk \/ Save(users', devices')
    BY <1>6 DEF Save
  <2> QED
    BY <1>1, <1>6, <2>1
<1>7. CASE \E p \in EnvPassword : Start(FALSE, p)
  BY <1>7 DEF Kept
<1> QED
  BY <1>2, <1>3, <1>4, <1>5, <1>6, <1>7
  DEF Next, RequestStep, SessionStep, vars, storeVars, RegisterTest, UpdateProfile, Login,
      SendReport, Logout, ListOnline, ListStored

(* What has been saved stays in memory and in the file, but for a rename   *)
(* onto its name, which replaces it, a rename of its own, under one of the *)
(* two names, and a start that cannot read the file (store.go:194-228,     *)
(* 91-102).                                                                *)
THEOREM SavedIsKept == Spec => SavedKept
<1>1. (TypeOK /\ ArgOK) /\ [Next]_vars => Kept
  BY KeptStep
<1> QED
  BY <1>1, StoreTypeCorrect, PTL DEF Spec, SavedKept

----------------------------------------------------------------------------
(* Names that have been used.                                              *)
LEMMA KnownInit == Init => KnownOK
  BY DEF Init, KnownOK, Filed, NoDevices

(* A name is known from a login on, which puts the session into the map,   *)
(* and a session in the map stays there until it has stored its record.    *)
LEMMA KnownStep ==
  ASSUME TypeOK, ArgOK, KnownOK, [Next]_vars
  PROVE  KnownOK'
<1> DEFINE Entry(n) == /\ allSessions[n] \in Sess /\ nodeID[allSessions[n]] = n
                       /\ login[allSessions[n]] = "persist"
                       /\ <<user[allSessions[n]], n>> \in known
<1>1. ASSUME Filed(devices)', UNCHANGED disk \/ Save(users, devices') \/ Save(users', devices')
      PROVE  Filed(disk.devices)'
  <2>1. disk'.devices = disk.devices \/ disk'.devices = devices'
    BY <1>1 DEF Save
  <2> QED
    BY <1>1, <2>1 DEF Filed, KnownOK
<1>2. ASSUME NEW s \in Sess, NEW u \in User, Login(s, u)
      PROVE  KnownOK'
  <2> DEFINE k == nodeID[s]
  <2>1. /\ k \in Name /\ known' = known \cup {<<u, k>>} /\ devices' = devices /\ disk' = disk
        /\ allSessions'[k] = s /\ login'[s] = "persist" /\ user'[s] = u
        /\ \A n \in Name \ {k} : allSessions'[n] = allSessions[n]
        /\ \A t \in Sess \ {s} : login'[t] = login[t] /\ user'[t] = user[t]
    BY <1>2 DEF Login, Registry!Login, TypeOK, storeVars
  <2>2. \A n \in Name, v \in User : (devices'[n] = None /\ <<v, n>> \in known') => Entry(n)'
    <3> SUFFICES ASSUME NEW n \in Name, NEW v \in User, devices'[n] = None, <<v, n>> \in known'
                 PROVE  Entry(n)'
      OBVIOUS
    <3>1. CASE n = k
      BY <2>1, <3>1
    <3>2. CASE n # k
      <4>1. <<v, n>> \in known /\ devices[n] = None
        BY <2>1, <3>2
      <4>2. Entry(n) /\ allSessions[n] # s
        BY <3>2, <4>1 DEF KnownOK
      <4> QED
        BY <2>1, <3>2, <4>2
    <3> QED
      BY <3>1, <3>2
  <2> QED
    BY <2>1, <2>2 DEF KnownOK, Filed
<1>3. ASSUME NEW s \in Sess, PersistDevice(s) \/ HandleReport(s)
      PROVE  KnownOK'
  <2> DEFINE k == nodeID[s]
  <2>1. /\ k \in Name /\ user[s] \in User /\ known' = known \cup {<<user[s], k>>}
        /\ UNCHANGED <<allSessions, user>>
        /\ \A t \in Sess \ {s} : login'[t] = login[t]
    BY <1>3 DEF PersistDevice, HandleReport, TypeOK, regVars
  <2>2. /\ devices'[k] \in DeviceRec /\ devices'[k].name = k /\ devices'[k].user = user[s]
        /\ \A n \in Name \ {k} : devices'[n] = devices[n]
    BY <1>3, <2>1, UpsertEffect DEF PersistDevice, HandleReport, TypeOK
  <2>3. Filed(devices)' /\ \A n \in Name : devices'[n] # None => <<devices'[n].user, n>> \in known'
    BY <2>1, <2>2 DEF KnownOK, Filed
  <2>4. Filed(disk.devices)'
    BY <1>1, <1>3, <2>3 DEF PersistDevice, HandleReport
  <2>5. \A n \in Name, v \in User : (devices'[n] = None /\ <<v, n>> \in known') => Entry(n)'
    <3> SUFFICES ASSUME NEW n \in Name, NEW v \in User, devices'[n] = None, <<v, n>> \in known'
                 PROVE  Entry(n)'
      OBVIOUS
    <3>1. n # k /\ <<v, n>> \in known /\ devices[n] = None
      BY <2>1, <2>2
    <3>2. Entry(n) /\ allSessions[n] # s
      BY <3>1 DEF KnownOK
    <3> QED
      BY <2>1, <3>2
  <2> QED
    BY <2>3, <2>4, <2>5 DEF KnownOK
<1>4. ASSUME NEW s \in Sess, Logout(s)
      PROVE  KnownOK'
  <2>1. /\ login[s] = "done" /\ UNCHANGED <<devices, disk, known, login, user>>
        /\ \A n \in Name : allSessions[n] # s => allSessions'[n] = allSessions[n]
    BY <1>4 DEF Logout, Registry!Logout, Registry!Without, TypeOK, storeVars
  <2>2. \A n \in Name, v \in User : (devices'[n] = None /\ <<v, n>> \in known') => Entry(n)'
    <3> SUFFICES ASSUME NEW n \in Name, NEW v \in User, devices[n] = None, <<v, n>> \in known
                 PROVE  Entry(n)'
      BY <2>1
    <3>1. Entry(n) /\ allSessions[n] # s
      BY <2>1 DEF KnownOK
    <3> QED
      BY <2>1, <3>1
  <2> QED
    BY <2>1, <2>2 DEF KnownOK, Filed
<1>5. ASSUME NEW old \in Name, NEW new \in Name, RenameDevice(old, new)
      PROVE  KnownOK'
  <2>1. /\ known' = (known \ (User \X {old})) \cup {<<devices[old].user, new>>}
        /\ UNCHANGED <<allSessions, login, user>>
    BY <1>5 DEF RenameDevice, sessVars, regVars
  <2>2. /\ old # new /\ devices'[old] = None
        /\ devices'[new] \in DeviceRec /\ devices'[new].name = new
        /\ devices'[new].user = devices[old].user
        /\ \A m \in Name \ {old, new} : devices'[m] = devices[m]
    BY <1>5, RenameEffect DEF TypeOK
  <2>3. Filed(devices)' /\ \A n \in Name : devices'[n] # None => <<devices'[n].user, n>> \in known'
    BY <2>1, <2>2 DEF KnownOK, Filed
  <2>4. Filed(disk.devices)'
    BY <1>1, <1>5, <2>3 DEF RenameDevice
  <2>5. \A n \in Name, v \in User : (devices'[n] = None /\ <<v, n>> \in known') => Entry(n)'
    <3> SUFFICES ASSUME NEW n \in Name, NEW v \in User, devices'[n] = None, <<v, n>> \in known'
                 PROVE  Entry(n)'
      OBVIOUS
    <3>1. n # new /\ n # old /\ <<v, n>> \in known /\ devices[n] = None
      BY <2>1, <2>2
    <3>2. Entry(n)
      BY <3>1 DEF KnownOK
    <3>3. <<user[allSessions[n]], n>> \in known'
      BY <2>1, <3>1, <3>2
    <3> QED
      BY <2>1, <3>2, <3>3
  <2> QED
    BY <2>3, <2>4, <2>5 DEF KnownOK
<1>6. ASSUME NEW readable \in BOOLEAN, NEW p \in EnvPassword, Start(readable, p)
      PROVE  KnownOK'
  <2>1. Filed(devices)'
    BY <1>6 DEF Start, KnownOK, Filed, NoDevices
  <2>2. Filed(disk.devices)'
    BY <1>1, <1>6, <2>1 DEF Start
  <2>3. /\ \A n \in Name : devices'[n] # None => devices'[n] \in DeviceRec
        /\ known' = {x \in User \X Name : devices'[x[2]] # None /\ devices'[x[2]].user = x[1]}
    BY <1>6 DEF Start, TypeOK, NoDevices
  <2>4. \A n \in Name : devices'[n] # None => <<devices'[n].user, n>> \in known'
    BY <2>3, RecordFields
  <2> QED
    BY <2>1, <2>2, <2>3, <2>4 DEF KnownOK
<1>7. ASSUME UNCHANGED <<devices, known, allSessions, login, user>>,
             UNCHANGED disk \/ Save(users, devices') \/ Save(users', devices')
      PROVE  KnownOK'
  <2>1. Filed(disk.devices)'
    BY <1>1, <1>7 DEF KnownOK, Filed
  <2> QED
    BY <1>7, <2>1 DEF KnownOK, Filed
<1>8. ASSUME NEW r \in Req, AddUser(r)
      PROVE  KnownOK'
  BY <1>7, <1>8 DEF AddUser, sessVars, regVars
<1>9. ASSUME NEW u \in User, UpdateProfile(u)
      PROVE  KnownOK'
  BY <1>7, <1>9 DEF UpdateProfile, sessVars, regVars
<1>10. CASE UNCHANGED <<devices, disk, known, allSessions, login, user>>
  BY <1>7, <1>10
<1> QED
  BY <1>2, <1>3, <1>4, <1>5, <1>6, <1>8, <1>9, <1>10
  DEF Next, RequestStep, SessionStep, vars, storeVars, sessVars, regVars, RegisterTest,
      SendReport, ListOnline, ListStored

----------------------------------------------------------------------------
(* Listings.                                                               *)
LEMMA ListingInit == Init => ListingOK
  BY DEF Init, ListingOK

(* Only a rename, which the listing then does not have to name, and a      *)
(* restart take a record away.                                             *)
LEMMA ListingStep ==
  ASSUME TypeOK, ArgOK, KnownOK, ListingOK, [Next]_vars
  PROVE  ListingOK'
<1>1. ASSUME NEW r \in Req, NEW u \in User, ListOnline(r, u)
      PROVE  ListingOK'
  <2>1. /\ pc[r] = "new" /\ pc'[r] = "list" /\ expected'[r] = Own(u) /\ UNCHANGED <<devices, listed>>
        /\ online'[r] = {nodeID[s] : s \in {t \in Sess : allSessions[nodeID[t]] = t /\ user[t] = u}}
        /\ \A q \in Req \ {r} : pc'[q] = pc[q] /\ expected'[q] = expected[q] /\ online'[q] = online[q]
    BY <1>1 DEF ListOnline, TypeOK, storeVars
  <2>2. ASSUME NEW n \in Own(u), devices[n] = None
        PROVE  n \in online'[r]
    <3>1. n \in Name /\ {v \in User : <<v, n>> \in known} = {u}
      BY DEF Own
    <3>2. /\ allSessions[n] \in Sess /\ nodeID[allSessions[n]] = n
          /\ <<user[allSessions[n]], n>> \in known
      BY <2>2, <3>1 DEF KnownOK
    <3>3. user[allSessions[n]] = u
      BY <3>1, <3>2 DEF TypeOK
    <3> QED
      BY <2>1, <3>2, <3>3
  <2> QED
    BY <2>1, <2>2 DEF ListingOK
<1>2. ASSUME NEW r \in Req, ListStored(r)
      PROVE  ListingOK'
  <2> DEFINE u == arg[r].user
  <2>1. /\ pc[r] = "list" /\ pc'[r] = "done" /\ expected'[r] = expected[r] \cap Own(u)
        /\ listed'[r] = online[r] \cup {d.name : d \in RecordsOf(u)} /\ UNCHANGED <<devices, online>>
        /\ \A q \in Req \ {r} : pc'[q] = pc[q] /\ expected'[q] = expected[q] /\ listed'[q] = listed[q]
    BY <1>2 DEF ListStored, TypeOK, storeVars
  <2>2. ASSUME NEW n \in Own(u), devices[n] # None
        PROVE  n \in {d.name : d \in RecordsOf(u)}
    <3>1. n \in Name /\ {v \in User : <<v, n>> \in known} = {u}
      BY DEF Own
    <3>2. devices[n] \in DeviceRec /\ devices[n].user \in User /\ devices[n].name = n
      BY <2>2, <3>1, RecordType, RecordFields DEF TypeOK, KnownOK, Filed
    <3>3. devices[n].user = u
      BY <2>2, <3>1, <3>2 DEF KnownOK
    <3> QED
      BY <2>2, <3>1, <3>2, <3>3 DEF RecordsOf
  <2> QED
    BY <2>1, <2>2 DEF ListingOK
<1>3. ASSUME NEW r \in Req, NEW u \in User, NEW p \in Password, RegisterTest(r, u, p)
      PROVE  ListingOK'
  <2>1. /\ pc[r] = "new" /\ pc'[r] = "add" /\ UNCHANGED <<devices, online, listed, expected>>
        /\ \A q \in Req \ {r} : pc'[q] = pc[q]
    BY <1>3 DEF RegisterTest, TypeOK, storeVars
  <2> QED
    BY <2>1 DEF ListingOK
<1>4. ASSUME NEW r \in Req, AddUser(r)
      PROVE  ListingOK'
  <2>1. /\ pc[r] = "add" /\ pc'[r] = "done" /\ UNCHANGED <<devices, online, listed, expected>>
        /\ \A q \in Req \ {r} : pc'[q] = pc[q]
    BY <1>4 DEF AddUser, TypeOK
  <2> QED
    BY <2>1 DEF ListingOK
<1>5. ASSUME NEW s \in Sess, PersistDevice(s) \/ HandleReport(s)
      PROVE  ListingOK'
  <2>1. nodeID[s] \in Name /\ user[s] \in User /\ UNCHANGED reqVars
    BY <1>5 DEF PersistDevice, HandleReport, TypeOK
  <2>2. \A n \in Name : devices[n] # None => devices'[n] # None
    <3>1. /\ devices'[nodeID[s]] \in DeviceRec
          /\ \A m \in Name \ {nodeID[s]} : devices'[m] = devices[m]
      BY <1>5, <2>1, UpsertEffect DEF PersistDevice, HandleReport, TypeOK
    <3> QED
      BY <3>1
  <2>3. \A r \in Req : expected[r] \subseteq Name
    BY DEF TypeOK
  <2> QED
    BY <2>1, <2>2, <2>3 DEF ListingOK, reqVars
<1>6. ASSUME NEW old \in Name, NEW new \in Name, RenameDevice(old, new)
      PROVE  ListingOK'
  <2>1. /\ UNCHANGED <<pc, online, listed>>
        /\ \A r \in Req : expected'[r] = expected[r] \ {old} /\ expected[r] \subseteq Name
    BY <1>6 DEF RenameDevice, TypeOK
  <2>2. \A n \in Name \ {old} : devices[n] # None => devices'[n] # None
    BY <1>6, RenameEffect DEF TypeOK
  <2> QED
    BY <2>1, <2>2 DEF ListingOK
<1>7. ASSUME NEW readable \in BOOLEAN, NEW p \in EnvPassword, Start(readable, p)
      PROVE  ListingOK'
  BY <1>7 DEF Start, ListingOK
<1>8. CASE UNCHANGED <<devices, reqVars>>
  BY <1>8 DEF ListingOK, reqVars
<1> QED
  BY <1>1, <1>2, <1>3, <1>4, <1>5, <1>6, <1>7, <1>8
  DEF Next, RequestStep, SessionStep, vars, storeVars, UpdateProfile, Login, SendReport, Logout

(* A device is on the list of its user's devices from the login on, with   *)
(* or without a session (web.go:220, 241; wssession.go:141-145).           *)
THEOREM ListingsAreComplete == Spec => []ListingComplete
<1>1. Init => KnownOK /\ ListingOK
  BY KnownInit, ListingInit
<1>2. (TypeOK /\ ArgOK) /\ (KnownOK /\ ListingOK) /\ [Next]_vars => (KnownOK /\ ListingOK)'
  BY KnownStep, ListingStep
<1>3. ListingOK => ListingComplete
  BY DEF ListingOK, ListingComplete
<1> QED
  BY <1>1, <1>2, <1>3, StoreTypeCorrect, PTL DEF Spec
=============================================================================
