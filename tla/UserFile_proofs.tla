--------------------------- MODULE UserFile_proofs ---------------------------
(***************************************************************************)
(* Proofs about UserFile, for any texts and any number of edits.             *)
(***************************************************************************)
EXTENDS UserFile, TLAPS

Stages == {"add", "open", "read", "store", "select", "wait", "done"}

\* Once the constructor of the htpasswd validator has loaded the file there are
\* users, or the process has ended.
LoadedInv ==
  /\ pc \in [Loaders -> Stages]
  /\ exited \in BOOLEAN
  /\ mode = "htpasswd" /\ pc["constructor"] \in {"add", "done"} /\ ~exited =>
       users.records # {}

\* A file that is accepted has users.
LEMMA AcceptedFilesHaveUsers ==
  ASSUME mode = "htpasswd", NEW t, Loads(t)
  PROVE  UsersOf(t) # {}
BY DEF Loads, UsersOf

\* Edits do not touch the process.
Outside == UNCHANGED <<mode, pc, handle, read, users, exited>>

\* The steps of the file system are edits.
LEMMA EditsAreOutside ==
  ASSUME \/ Write \/ Replace \/ Remove \/ Rename \/ Create
         \/ \E i \in Inodes : DeleteInode(i)
  PROVE  Outside
BY DEF Outside, Write, Replace, Remove, Rename, Create, DeleteInode, Edit

\* LoadedInv is inductive.
LEMMA LoadedInvariant == Spec => []LoadedInv
<1> USE DEF Loaders, Stages
<1>1. Init => LoadedInv
  BY DEF Init, LoadedInv, Constructor
<1>2. LoadedInv /\ [Next]_vars => LoadedInv'
  <2> SUFFICES ASSUME LoadedInv, [Next]_vars
               PROVE  LoadedInv'
    OBVIOUS
  <2> USE DEF LoadedInv
  <2>1. CASE WatchFileForUpdates
    BY <2>1 DEF WatchFileForUpdates, fileVars, AfterAdd, Constructor
  <2>2. CASE filterEvent \/ WaitForReplacement
    BY <2>2 DEF filterEvent, WaitForReplacement, fileVars
  <2>3. ASSUME NEW l \in Loaders, Open(l)
        PROVE  LoadedInv'
    BY <2>3 DEF Open, fileVars, AfterLoad, Constructor
  <2>4. ASSUME NEW l \in Loaders, Read(l)
        PROVE  LoadedInv'
    BY <2>4 DEF Read, fileVars
  <2>5. ASSUME NEW l \in Loaders, Store(l)
        PROVE  LoadedInv'
    <3>0. mode' = mode
      BY <2>5 DEF Store, fileVars
    <3>1. pc' \in [Loaders -> Stages] /\ exited' \in BOOLEAN
      BY <2>5 DEF Store, AfterLoad, Constructor
    <3>2. CASE mode = "htpasswd" /\ Loads(read[l].text)
      BY <2>5, <3>0, <3>1, <3>2, AcceptedFilesHaveUsers DEF Store
    <3>3. CASE mode = "htpasswd" /\ ~Loads(read[l].text)
      BY <2>5, <3>0, <3>1, <3>3 DEF Store, AfterLoad
    <3> QED
      BY <3>0, <3>1, <3>2, <3>3
  <2>6. CASE Outside \/ UNCHANGED vars
    BY <2>6 DEF Outside, vars, fileVars
  <2> QED
    BY <2>1, <2>2, <2>3, <2>4, <2>5, <2>6, EditsAreOutside DEF Next, Process
<1> QED
  BY <1>1, <1>2, PTL DEF Spec

\* A running proxy with an htpasswd file always has users.
THEOREM HtpasswdKeepsUsers == Spec => []KeepsLastGood
<1>1. LoadedInv => KeepsLastGood
  BY DEF LoadedInv, KeepsLastGood
<1> QED
  BY <1>1, LoadedInvariant, PTL

-----------------------------------------------------------------------------
(***************************************************************************)
(* No rollback.  Versions grow with the edits, the path always names the     *)
(* newest one, and no two loads overlap: the htpasswd validator watches the  *)
(* file only after it has loaded it.                                         *)
(***************************************************************************)
Newest(v) == v <= edits + 1 /\ (path # 0 => v <= version[path])

Versions ==
  /\ path \in Inodes \cup {0} /\ edits \in 0..MaxEdits
  /\ version \in [Inodes -> Nat]
  /\ handle \in [Loaders -> Inodes \cup {0}]
  /\ \A l \in Loaders : read[l].version \in Nat
  /\ DOMAIN read = Loaders
  /\ users.version \in Nat
  /\ unlinked \subseteq Inodes

OneLoad ==
  /\ pc \in [Loaders -> Stages]
  /\ pc["constructor"] # "done" =>
       pc["watcher"] = "select" /\ events = <<>> /\ watch = 0
  /\ \A l \in Loaders : pc[l] # "read" => handle[l] = 0
  /\ \A l \in Loaders : pc[l] = "read" => handle[l] # 0

Ordered ==
  /\ \A i \in Inodes : Newest(version[i])
  /\ \A l \in Loaders : Newest(read[l].version)
  /\ Newest(users.version)
  /\ \A l \in Loaders :
       /\ pc[l] = "read" => users.version <= version[handle[l]]
       /\ pc[l] = "store" => users.version <= read[l].version

OrderInv == Versions /\ OneLoad /\ Ordered

\* An edit that gives the path's inode a new text, or makes a new one.
LEMMA NewText ==
  ASSUME OrderInv, Outside, edits' = edits + 1, edits < MaxEdits,
         path' \in Inodes, version' = [version EXCEPT ![path'] = edits + 2],
         unlinked' \subseteq Inodes, pc["constructor"] # "done" => events' = events,
         watch' = watch
  PROVE  OrderInv'
<1> USE FileAssumption DEF OrderInv, Outside
<1>1. Versions'
  BY DEF Versions, Inodes
<1>2. OneLoad'
  BY DEF OneLoad
<1>3. \A v \in Nat : v <= edits + 1 => v <= edits' + 1 /\ v <= version'[path']
  BY DEF Versions
<1>4. Ordered'
  <2>1. ASSUME NEW j \in Inodes
        PROVE  Newest(version[j])'
    <3>1. CASE j = path'
      BY <3>1 DEF Newest, Versions
    <3>2. CASE j # path'
      <4>1. version[j] \in Nat /\ version[j] <= edits + 1 /\ version'[j] = version[j]
        BY <3>2 DEF Ordered, Versions, Newest
      <4> QED
        BY <4>1, <1>3 DEF Newest
    <3> QED
      BY <3>1, <3>2
  <2>2. (\A l \in Loaders : Newest(read[l].version)') /\ Newest(users.version)'
    BY <1>3 DEF Ordered, Versions, Newest
  <2>3. \A j \in Inodes : version'[j] >= version[j]
    BY DEF Ordered, Versions, Newest
  <2>4. ASSUME NEW l \in Loaders
        PROVE  /\ pc'[l] = "read" => users'.version <= version'[handle'[l]]
               /\ pc'[l] = "store" => users'.version <= read'[l].version
    <3>1. CASE pc[l] = "read"
      <4>1. handle[l] \in Inodes
        BY <3>1 DEF OneLoad, Versions
      <4> QED
        BY <3>1, <4>1, <2>3 DEF Ordered, Versions
    <3> QED
      BY <3>1 DEF Ordered
  <2> QED
    BY <2>1, <2>2, <2>4 DEF Ordered
<1> QED
  BY <1>1, <1>2, <1>4

\* A step that takes the path away, or leaves the files alone.
LEMMA NoNewText ==
  ASSUME OrderInv, Outside, edits' \in {edits, edits + 1}, edits' <= MaxEdits,
         path' \in {path, 0}, version' = version, unlinked' \subseteq Inodes,
         pc["constructor"] # "done" => events' = events /\ watch' = watch
  PROVE  OrderInv'
<1> USE FileAssumption DEF OrderInv, Outside
<1>1. Versions'
  BY DEF Versions
<1>2. OneLoad'
  BY DEF OneLoad
<1>3. Ordered'
  BY DEF Ordered, Newest, Versions
<1> QED
  BY <1>1, <1>2, <1>3

\* No edit disturbs the order of versions.
LEMMA EditsKeepOrder ==
  ASSUME OrderInv,
         \/ Write \/ Replace \/ Remove \/ Rename \/ Create
         \/ \E i \in Inodes : DeleteInode(i)
  PROVE  OrderInv'
<1> USE FileAssumption, EditsAreOutside
<1>0. /\ path \in Inodes \cup {0} /\ unlinked \subseteq Inodes /\ edits \in 0..MaxEdits
      /\ pc["constructor"] # "done" => watch = 0
      /\ edits < MaxEdits => edits + 2 \in Inodes
  BY DEF OrderInv, Versions, OneLoad, Inodes
<1>1. CASE Write
  <2>1. path' \in Inodes /\ version' = [version EXCEPT ![path'] = edits + 2]
    BY <1>0, <1>1 DEF Write, SetText
  <2>2. pc["constructor"] # "done" => events' = events
    BY <1>0, <1>1 DEF Write, Notify, Inodes
  <2> QED
    BY <1>0, <1>1, <2>1, <2>2, NewText DEF Write, Edit
<1>2. CASE Replace
  BY <1>0, <1>2, NewText DEF Replace, SetText, Edit
<1>3. CASE Create
  BY <1>0, <1>3, NewText DEF Create, SetText
<1>4. CASE Remove
  BY <1>0, <1>4, NoNewText DEF Remove, Edit
<1>5. CASE Rename
  BY <1>0, <1>5, NoNewText DEF Rename, Edit, Notify
<1>6. ASSUME NEW i \in Inodes, DeleteInode(i)
      PROVE  OrderInv'
  <2>1. pc["constructor"] # "done" => events' = events /\ watch' = watch
    BY <1>0, <1>6 DEF DeleteInode, Notify, Inodes
  <2> QED
    BY <1>0, <1>6, <2>1, NoNewText DEF DeleteInode
<1> QED
  BY <1>1, <1>2, <1>3, <1>4, <1>5, <1>6

\* The process loads one version after the other.
LEMMA ProcessKeepsOrder ==
  ASSUME mode = "htpasswd", OrderInv, Process
  PROVE  OrderInv' /\ users'.version >= users.version
<1> USE FileAssumption DEF OrderInv, Loaders, Stages
<1>1. CASE WatchFileForUpdates
  <2>1. Versions' /\ Ordered'
    BY <1>1 DEF WatchFileForUpdates, fileVars, Versions, Ordered, Newest, OneLoad, AfterAdd,
                Constructor
  <2>2. OneLoad'
    BY <1>1 DEF WatchFileForUpdates, fileVars, OneLoad, AfterAdd, Constructor
  <2> QED
    BY <1>1, <2>1, <2>2 DEF WatchFileForUpdates, Versions
<1>2. CASE filterEvent
  <2>1. pc["constructor"] = "done"
    BY <1>2 DEF filterEvent, OneLoad
  <2>2. Versions' /\ Ordered'
    BY <1>2 DEF filterEvent, fileVars, Versions, Ordered, Newest, OneLoad
  <2>3. OneLoad'
    BY <1>2, <2>1 DEF filterEvent, OneLoad
  <2> QED
    BY <1>2, <2>2, <2>3 DEF filterEvent, Versions
<1>3. CASE WaitForReplacement
  <2>1. pc["constructor"] = "done"
    BY <1>3 DEF WaitForReplacement, OneLoad
  <2>2. Versions' /\ Ordered'
    BY <1>3 DEF WaitForReplacement, fileVars, Versions, Ordered, Newest, OneLoad
  <2>3. OneLoad'
    BY <1>3, <2>1 DEF WaitForReplacement, OneLoad
  <2> QED
    BY <1>3, <2>2, <2>3 DEF WaitForReplacement, Versions
<1>4. ASSUME NEW l \in Loaders, Open(l)
      PROVE  OrderInv' /\ users'.version >= users.version
  <2>1. Versions'
    BY <1>4 DEF Open, fileVars, Versions
  <2>2. OneLoad'
    BY <1>4 DEF Open, OneLoad, Versions, AfterLoad, Constructor
  <2>3. Ordered'
    BY <1>4 DEF Open, fileVars, Ordered, Newest, OneLoad, Versions, AfterLoad, Constructor
  <2> QED
    BY <1>4, <2>1, <2>2, <2>3 DEF Open, Versions
<1>5. ASSUME NEW l \in Loaders, Read(l)
      PROVE  OrderInv' /\ users'.version >= users.version
  <2>0. handle[l] \in Inodes
    BY <1>5 DEF Read, OneLoad, Versions
  <2>1. Versions'
    BY <1>5, <2>0 DEF Read, fileVars, Versions
  <2>2. OneLoad'
    BY <1>5 DEF Read, OneLoad, Versions
  <2>3. Ordered'
    BY <1>5, <2>0 DEF Read, fileVars, Ordered, Newest, OneLoad, Versions
  <2> QED
    BY <1>5, <2>1, <2>2, <2>3 DEF Read, Versions
<1>6. ASSUME NEW l \in Loaders, Store(l)
      PROVE  OrderInv' /\ users'.version >= users.version
  <2>0. \A k \in Loaders : k # l => pc[k] \notin {"read", "store"}
    BY <1>6 DEF Store, OneLoad
  <2>1. /\ users'.version \in {users.version, read[l].version}
        /\ users.version <= read[l].version
    BY <1>6 DEF Store, Ordered
  <2>2. Versions'
    BY <1>6, <2>1 DEF Store, fileVars, Versions, NoText
  <2>3. OneLoad'
    BY <1>6 DEF Store, OneLoad, Versions, AfterLoad, Constructor
  <2>4. Ordered'
    <3>2. Newest(users'.version)
      BY <2>1 DEF Ordered
    <3>3. \A k \in Loaders : Newest(read'[k].version)
      <4>1. Newest(0)
        BY DEF Newest, Versions
      <4> QED
        BY <1>6, <4>1 DEF Store, Ordered, NoText, Versions
    <3>4. \A k \in Loaders : pc'[k] \notin {"read", "store"}
      BY <1>6, <2>0 DEF Store, AfterLoad, Constructor, OneLoad
    <3>5. UNCHANGED fileVars
      BY <1>6 DEF Store
    <3> QED
      BY <3>2, <3>3, <3>4, <3>5 DEF Ordered, Newest, fileVars
  <2>5. users'.version >= users.version
    <3>1. users.version \in Nat /\ read[l].version \in Nat
      BY DEF Versions
    <3> QED
      BY <2>1, <3>1
  <2> QED
    BY <2>2, <2>3, <2>4, <2>5
<1> QED
  BY <1>1, <1>2, <1>3, <1>4, <1>5, <1>6 DEF Process

\* The htpasswd map never goes back to an older version of its file, also when
\* the file is edited while the proxy starts.
THEOREM HtpasswdNeverRollsBack == Spec => NoRollback
<1> DEFINE Inv == mode = "htpasswd" => OrderInv
<1>1. Init => Inv
  <2> SUFFICES ASSUME Init, mode = "htpasswd"
               PROVE  OrderInv
    OBVIOUS
  <2> USE FileAssumption DEF Init, Inodes, Loaders, NoText
  <2>1. Versions
    BY DEF Versions
  <2>2. OneLoad
    BY DEF OneLoad, Stages, Constructor
  <2>3. Ordered
    BY DEF Ordered, Newest, Constructor
  <2> QED
    BY <2>1, <2>2, <2>3 DEF OrderInv
<1>2. [Next]_vars => mode' = mode
  <2>1. Process => mode' = mode
    BY DEF Process, WatchFileForUpdates, filterEvent, WaitForReplacement, Open, Read, Store,
           fileVars
  <2> QED
    BY <2>1, EditsAreOutside DEF Next, Outside, vars, fileVars
<1>3. Inv /\ [Next]_vars => Inv'
  <2>1. ASSUME OrderInv, UNCHANGED vars
        PROVE  OrderInv'
    BY <2>1 DEF vars, fileVars, OrderInv, Versions, OneLoad, Ordered, Newest
  <2> QED
    BY <1>2, <2>1, ProcessKeepsOrder, EditsKeepOrder DEF Next
<1>4. Inv /\ [Next]_vars => [mode = "htpasswd" => users'.version >= users.version]_vars
  <2>1. ASSUME OrderInv, Outside
        PROVE  users'.version >= users.version
    BY <2>1 DEF Outside, OrderInv, Versions
  <2> QED
    BY <2>1, ProcessKeepsOrder, EditsAreOutside DEF Next
<1> QED
  BY <1>1, <1>3, <1>4, PTL DEF Spec, NoRollback

-----------------------------------------------------------------------------
(***************************************************************************)
(* Types.  They are inductive once it is known that whoever reads has opened *)
(* a file.                                                                   *)
(***************************************************************************)
OpenToRead == \A l \in Loaders : pc[l] = "read" => handle[l] # 0

TypeInv == TypeOK /\ OpenToRead

\* Texts are sequences, and the records of a map are positions in one.
LEMMA RecordsArePositions ==
  ASSUME NEW t \in Texts \cup {<<>>}
  PROVE  UsersOf(t) \subseteq Nat \ {0}
<1>1. CASE t \in Texts
  <2>1. t \in Seq({"user", "bad", "torn"})
    BY <1>1, FileAssumption
  <2> QED
    BY <2>1 DEF UsersOf, Records
<1>2. CASE t = <<>>
  <2>1. Len(t) = 0
    BY <1>2
  <2> QED
    BY <2>1 DEF UsersOf, Records
<1> QED
  BY <1>1, <1>2

\* An edit leaves the process alone, and an inode gets a text and a version.
LEMMA EditTypes ==
  ASSUME TypeInv, Outside, edits' \in 0..MaxEdits, missed' \subseteq {"early", "rename"},
         path' \in Inodes \cup {0}, unlinked' \subseteq Inodes, watch' \in Inodes \cup {0},
         events' \in Seq({"write", "remove", "rename"}),
         \/ UNCHANGED <<text, version>>
         \/ \E i \in Inodes, t \in Texts \cup {<<>>} : SetText(i, t) /\ edits < MaxEdits
  PROVE  TypeInv'
<1> USE DEF TypeInv, TypeOK
<1>1. text' \in [Inodes -> Texts \cup {<<>>}] /\ version' \in [Inodes -> 0..(MaxEdits + 1)]
  <2>1. ASSUME NEW i \in Inodes, NEW t \in Texts \cup {<<>>}, SetText(i, t), edits < MaxEdits
        PROVE  /\ text' \in [Inodes -> Texts \cup {<<>>}]
               /\ version' \in [Inodes -> 0..(MaxEdits + 1)]
    <3>1. text' \in [Inodes -> Texts \cup {<<>>}]
      BY <2>1 DEF SetText
    <3>2. MaxEdits \in Nat
      BY FileAssumption
    <3>3. edits + 2 \in 0..(MaxEdits + 1)
      BY <2>1, <3>2
    <3> QED
      BY <2>1, <3>1, <3>3 DEF SetText
  <2> QED
    BY <2>1
<1>2. TypeOK'
  BY <1>1 DEF Outside
<1>3. OpenToRead'
  BY DEF Outside, OpenToRead
<1> QED
  BY <1>2, <1>3

LEMMA EditsKeepTypes ==
  ASSUME TypeInv,
         \/ Write \/ Replace \/ Remove \/ Rename \/ Create
         \/ \E i \in Inodes : DeleteInode(i)
  PROVE  TypeInv'
<1>0. Outside
  BY EditsAreOutside
<1>1. /\ MaxEdits \in Nat /\ edits \in 0..MaxEdits /\ path \in Inodes \cup {0}
      /\ unlinked \subseteq Inodes /\ watch \in Inodes \cup {0}
      /\ missed \subseteq {"early", "rename"} /\ Early \subseteq {"early", "rename"}
      /\ events \in Seq({"write", "remove", "rename"})
      /\ edits < MaxEdits => edits + 2 \in Inodes /\ edits + 1 \in 0..MaxEdits
  BY FileAssumption DEF TypeInv, TypeOK, Inodes, Early
<1>2. \A i : \A e \in {"write", "remove", "rename"} :
        Notify(i, e) => events' \in Seq({"write", "remove", "rename"})
  BY <1>1 DEF Notify
<1>3. CASE Write
  <2>1. path \in Inodes /\ (\E t \in Texts \cup {<<>>} : SetText(path, t)) /\ edits < MaxEdits
    BY <1>1, <1>3 DEF Write, Edit
  <2>2. events' \in Seq({"write", "remove", "rename"})
    BY <1>2, <1>3 DEF Write
  <2> QED
    BY <1>0, <1>1, <1>3, <2>1, <2>2, EditTypes DEF Write, Edit
<1>4. CASE Replace
  BY <1>0, <1>1, <1>4, EditTypes DEF Replace, Edit
<1>5. CASE Create
  BY <1>0, <1>1, <1>5, EditTypes DEF Create
<1>6. CASE Remove
  BY <1>0, <1>1, <1>6, EditTypes DEF Remove, Edit
<1>7. CASE Rename
  BY <1>0, <1>1, <1>2, <1>7, EditTypes DEF Rename, Edit
<1>8. ASSUME NEW i \in Inodes, DeleteInode(i) PROVE TypeInv'
  BY <1>0, <1>1, <1>2, <1>8, EditTypes DEF DeleteInode
<1> QED
  BY <1>3, <1>4, <1>5, <1>6, <1>7, <1>8

\* A step of the process leaves the files alone.
LEMMA ProcessKeepsTypes ==
  ASSUME TypeInv, Process
  PROVE  TypeInv'
<1> USE DEF TypeInv, TypeOK, OpenToRead, Loaders, fileVars, Inodes
<1>1. CASE WatchFileForUpdates
  BY <1>1 DEF WatchFileForUpdates, AfterAdd, Constructor
<1>2. CASE filterEvent
  <2>1. events' \in Seq({"write", "remove", "rename"})
    BY <1>2 DEF filterEvent
  <2> QED
    BY <1>2, <2>1 DEF filterEvent
<1>3. CASE WaitForReplacement
  BY <1>3 DEF WaitForReplacement
<1>4. ASSUME NEW l \in Loaders, Open(l) PROVE TypeInv'
  <2>1. pc' \in [Loaders -> Stages] /\ handle' \in [Loaders -> Inodes \cup {0}]
    BY <1>4 DEF Open, AfterLoad, Constructor, Stages
  <2>2. OpenToRead'
    BY <1>4 DEF Open, AfterLoad, Constructor
  <2>3. exited' \in BOOLEAN
    BY <1>4 DEF Open
  <2> QED
    BY <1>4, <2>1, <2>2, <2>3 DEF Open, Stages
<1>5. ASSUME NEW l \in Loaders, Read(l) PROVE TypeInv'
  <2>1. handle[l] \in Inodes
    BY <1>5 DEF Read
  <2> QED
    BY <1>5, <2>1 DEF Read
<1>6. ASSUME NEW l \in Loaders, Store(l) PROVE TypeInv'
  <2>1. /\ users'.records \subseteq Nat \ {0} /\ users'.version \in 0..(MaxEdits + 1)
    BY <1>6, RecordsArePositions DEF Store
  <2>2. NoText \in [text : Texts \cup {<<>>}, version : 0..(MaxEdits + 1)]
    BY FileAssumption DEF NoText
  <2>3. read' \in [Loaders -> [text : Texts \cup {<<>>}, version : 0..(MaxEdits + 1)]]
    BY <1>6, <2>2 DEF Store
  <2>4. pc' \in [Loaders -> Stages] /\ pc'[l] # "read" /\ \A k \in Loaders : k # l => pc'[k] = pc[k]
    BY <1>6 DEF Store, AfterLoad, Constructor, Stages
  <2>5. exited' \in BOOLEAN
    BY <1>6 DEF Store
  <2> QED
    BY <1>6, <2>1, <2>3, <2>4, <2>5 DEF Store, Stages
<1> QED
  BY <1>1, <1>2, <1>3, <1>4, <1>5, <1>6 DEF Process

\* Every variable keeps its type: texts are never read without a file, and the
\* map holds records of a text.
THEOREM TypeCorrect == Spec => []TypeOK
<1>1. Init => TypeInv
  <2> SUFFICES ASSUME Init PROVE TypeInv
    OBVIOUS
  <2>1. MaxEdits \in Nat
    BY FileAssumption
  <2>2. text \in [Inodes -> Texts \cup {<<>>}]
    BY DEF Init
  <2>3. version \in [Inodes -> 0..(MaxEdits + 1)] /\ path \in Inodes /\ edits \in 0..MaxEdits
    BY <2>1 DEF Init, Inodes
  <2>4. pc \in [Loaders -> Stages] /\ OpenToRead
    BY DEF Init, Loaders, Stages, Constructor, OpenToRead
  <2>5. events \in Seq({"write", "remove", "rename"})
    BY DEF Init
  <2>6. NoText \in [text : Texts \cup {<<>>}, version : 0..(MaxEdits + 1)]
    BY <2>1 DEF NoText
  <2>7. read \in [Loaders -> [text : Texts \cup {<<>>}, version : 0..(MaxEdits + 1)]]
    BY <2>6 DEF Init
  <2>8. users.records \subseteq Nat \ {0} /\ users.version \in 0..(MaxEdits + 1)
    BY <2>1 DEF Init
  <2>9. exited \in BOOLEAN /\ unlinked \subseteq Inodes /\ missed \subseteq {"early", "rename"}
    BY DEF Init
  <2>10. handle \in [Loaders -> Inodes \cup {0}] /\ watch \in Inodes \cup {0} /\ mode \in Modes
    BY DEF Init
  <2> QED
    BY <2>2, <2>3, <2>4, <2>5, <2>7, <2>8, <2>9, <2>10 DEF TypeInv, TypeOK, Stages
<1>2. TypeInv /\ [Next]_vars => TypeInv'
  <2>1. CASE UNCHANGED vars
    BY <2>1 DEF vars, fileVars, TypeInv, TypeOK, OpenToRead
  <2> QED
    BY <2>1, EditsKeepTypes, ProcessKeepsTypes DEF Next
<1>3. TypeInv => TypeOK
  BY DEF TypeInv
<1> QED
  BY <1>1, <1>2, <1>3, PTL DEF Spec
=============================================================================
