------------------------------- MODULE UserFile -------------------------------
(***************************************************************************)
(* Files of users that are read again when they change: the watcher of       *)
(* pkg/watcher/watcher.go with the htpasswd file of                          *)
(* pkg/authentication/basic/htpasswd.go, or the authenticated emails file of *)
(* validator.go.                                                            *)
(*                                                                          *)
(* A path names an inode, or nothing.  fsnotify watches the inode that the   *)
(* path named when the watch was added, and forgets it when the inode is     *)
(* deleted or renamed.  A text is a sequence of records; every edit gives    *)
(* its inode a new version.                                                  *)
(***************************************************************************)
EXTENDS Integers, Sequences, FiniteSets

CONSTANTS
  Modes,      \* "htpasswd", "emails"
  Texts,      \* what is written to the file: "user", "bad" and "torn" records
  EditKinds,  \* how it is edited
  MaxEdits    \* bound on the edits

ASSUME FileAssumption ==
  /\ Modes \subseteq {"htpasswd", "emails"}
  /\ Texts \subseteq Seq({"user", "bad", "torn"}) \ {<<>>}
  /\ EditKinds \subseteq {"write", "replace", "remove", "rename"}
  /\ MaxEdits \in Nat

VARIABLES
  mode,      \* which file it is
  path,      \* the inode that the path names; 0: none
  text,      \* inode -> its text
  version,   \* inode -> version of its text
  unlinked,  \* inodes that no path names any more and that are not deleted yet
  edits,     \* edits so far
  missed,    \* history: why an edit may have escaped the watcher, "early" or "rename"
  watch,     \* the watched inode
  events,    \* fsnotify events that have not been read
  pc,        \* where the constructor and the watcher's goroutine are
  handle,    \* the inode that each has opened
  read,      \* the text and the version that each has read
  users,     \* the map of users: the records it holds and their version
  exited     \* the process has ended

fileVars == <<mode, path, text, version, unlinked, edits, missed>>
vars == <<fileVars, watch, events, pc, handle, read, users, exited>>

Inodes == 1..(MaxEdits + 1)
Loaders == {"constructor", "watcher"}
NoText == [text |-> <<>>, version |-> 0]

TypeOK ==
  /\ mode \in Modes
  /\ path \in Inodes \cup {0}
  /\ text \in [Inodes -> Texts \cup {<<>>}]
  /\ version \in [Inodes -> 0..(MaxEdits + 1)]
  /\ unlinked \subseteq Inodes
  /\ edits \in 0..MaxEdits /\ missed \subseteq {"early", "rename"}
  /\ watch \in Inodes \cup {0}
  /\ events \in Seq({"write", "remove", "rename"})
  /\ pc \in [Loaders -> {"add", "open", "read", "store", "select", "wait", "done"}]
  /\ handle \in [Loaders -> Inodes \cup {0}]
  /\ read \in [Loaders -> [text: Texts \cup {<<>>}, version: 0..(MaxEdits + 1)]]
  /\ users.records \subseteq Nat \ {0} /\ users.version \in 0..(MaxEdits + 1)
  /\ exited \in BOOLEAN

-----------------------------------------------------------------------------
Records(t, kinds) == {i \in 1..Len(t) : t[i] \in kinds}

\* A bug to compare with: whatever has been read replaces the map.
AlwaysLoads(t) == TRUE

\* createHtpasswdMap refuses records without two fields, an empty map, and,
\* because every entry overwrites invalidEntries, a file whose last entry has
\* no SHA or bcrypt password.  The emails file is refused when it is not CSV.
Loads(t) ==
  /\ Records(t, {"torn"}) = {}
  /\ mode = "htpasswd" => Records(t, {"user"}) # {} /\ t[Len(t)] # "bad"

\* The records that end up in the map.
UsersOf(t) == Records(t, IF mode = "htpasswd" THEN {"user"} ELSE {"user", "bad"})

\* A bug to compare with: the file is watched before it is loaded.
WatchFirst == <<"add", "open">>

\* NewHTPasswdValidator loads the file and then watches it; NewUserMap watches
\* it and then loads it.
Constructor == IF mode = "htpasswd" THEN <<"open", "add">> ELSE <<"add", "open">>

AfterAdd == IF Constructor[1] = "add" THEN "open" ELSE "done"

AfterLoad(l) ==
  IF l = "watcher" THEN "select" ELSE IF Constructor[1] = "open" THEN "add" ELSE "done"

Notify(i, e) == events' = IF watch = i THEN Append(events, e) ELSE events

-----------------------------------------------------------------------------
Init ==
  /\ mode \in Modes
  /\ path = 1
  /\ \E t \in Texts : text = [i \in Inodes |-> IF i = 1 THEN t ELSE <<>>]
  /\ version = [i \in Inodes |-> IF i = 1 THEN 1 ELSE 0]
  /\ unlinked = {} /\ edits = 0 /\ missed = {}
  /\ watch = 0 /\ events = <<>>
  /\ pc = [l \in Loaders |-> IF l = "watcher" THEN "select" ELSE Constructor[1]]
  /\ handle = [l \in Loaders |-> 0]
  /\ read = [l \in Loaders |-> NoText]
  /\ users = [records |-> {}, version |-> 0]
  /\ exited = FALSE

\* WatchFileForUpdates fails when there is no file.  NewHTPasswdValidator
\* passes the error on, which ends the process; NewUserMap ignores it.
WatchFileForUpdates ==
  /\ pc["constructor"] = "add" /\ ~exited
  /\ watch' = path
  /\ exited' = (path = 0 /\ mode = "htpasswd")
  /\ pc' = [pc EXCEPT !["constructor"] = AfterAdd]
  /\ UNCHANGED <<fileVars, events, handle, read, users>>

\* os.Open.  A missing file ends the process, but for the watcher of the
\* htpasswd file, which logs the error.
Open(l) ==
  /\ pc[l] = "open" /\ ~exited
  /\ IF path # 0
     THEN /\ handle' = [handle EXCEPT ![l] = path]
          /\ pc' = [pc EXCEPT ![l] = "read"]
          /\ UNCHANGED exited
     ELSE /\ exited' = (mode = "emails" \/ l = "constructor")
          /\ pc' = [pc EXCEPT ![l] = AfterLoad(l)]
          /\ UNCHANGED handle
  /\ UNCHANGED <<fileVars, watch, events, read, users>>

\* csvReader.ReadAll.
Read(l) ==
  /\ pc[l] = "read" /\ ~exited
  /\ read' = [read EXCEPT ![l] = [text |-> text[handle[l]], version |-> version[handle[l]]]]
  /\ handle' = [handle EXCEPT ![l] = 0]
  /\ pc' = [pc EXCEPT ![l] = "store"]
  /\ UNCHANGED <<fileVars, watch, events, users, exited>>

\* The new map replaces the old one in one step (a mutex here, an atomic
\* pointer there), or is given up: then the constructor of the htpasswd
\* validator fails, and everybody else keeps the old map.
Store(l) ==
  /\ pc[l] = "store" /\ ~exited
  /\ users' = IF Loads(read[l].text)
              THEN [records |-> UsersOf(read[l].text), version |-> read[l].version]
              ELSE users
  /\ exited' = (l = "constructor" /\ mode = "htpasswd" /\ ~Loads(read[l].text))
  /\ pc' = [pc EXCEPT ![l] = AfterLoad(l)]
  /\ read' = [read EXCEPT ![l] = NoText]
  /\ UNCHANGED <<fileVars, watch, events, handle>>

\* A bug to compare with: a file that is removed is not looked for again.
IgnoreRemove ==
  /\ pc["watcher"] = "select" /\ events # <<>> /\ ~exited
  /\ events' = Tail(events)
  /\ pc' = [pc EXCEPT !["watcher"] = IF Head(events) = "write" THEN "open" ELSE "select"]
  /\ UNCHANGED <<fileVars, watch, handle, read, users, exited>>

\* The goroutine of WatchFileForUpdates reads an event.  filterEvent loads the
\* file after it was written and waits for it after it was removed; a rename
\* is neither.
filterEvent ==
  /\ pc["watcher"] = "select" /\ events # <<>> /\ ~exited
  /\ events' = Tail(events)
  /\ pc' = [pc EXCEPT !["watcher"] = CASE Head(events) = "write" -> "open"
                                       [] Head(events) = "remove" -> "wait"
                                       [] OTHER -> "select"]
  /\ UNCHANGED <<fileVars, watch, handle, read, users, exited>>

\* WaitForReplacement returns once there is a file and a watch on it.
WaitForReplacement ==
  /\ pc["watcher"] = "wait" /\ path # 0 /\ ~exited
  /\ watch' = path
  /\ pc' = [pc EXCEPT !["watcher"] = "open"]
  /\ UNCHANGED <<fileVars, events, handle, read, users, exited>>

-----------------------------------------------------------------------------
(***************************************************************************)
(* The file system.                                                        *)
(***************************************************************************)
Early == IF pc["constructor"] = "done" THEN {} ELSE {"early"}

Edit(kind) ==
  /\ kind \in EditKinds
  /\ edits < MaxEdits
  /\ edits' = edits + 1
  /\ missed' = missed \cup Early \cup ({kind} \cap {"rename"})
  /\ UNCHANGED <<mode, pc, handle, read, users, exited>>

SetText(i, t) ==
  /\ text' = [text EXCEPT ![i] = t]
  /\ version' = [version EXCEPT ![i] = edits + 2]

\* Written in place: first truncated, then filled.
Write ==
  /\ Edit("write")
  /\ path # 0
  /\ \E t \in IF text[path] = <<>> THEN Texts ELSE {<<>>} : SetText(path, t)
  /\ Notify(path, "write")
  /\ UNCHANGED <<path, unlinked, watch>>

\* Another file is put in its place: mv, or the symbolic links of a ConfigMap.
Replace ==
  /\ Edit("replace")
  /\ path # 0
  /\ path' = edits + 2
  /\ \E t \in Texts : SetText(edits + 2, t)
  /\ unlinked' = unlinked \cup {path}
  /\ UNCHANGED <<watch, events>>

Remove ==
  /\ Edit("remove")
  /\ path # 0
  /\ path' = 0
  /\ unlinked' = unlinked \cup {path}
  /\ UNCHANGED <<text, version, watch, events>>

\* The file is moved out of the way.
Rename ==
  /\ Edit("rename")
  /\ path # 0
  /\ path' = 0
  /\ Notify(path, "rename")
  /\ watch' = IF watch = path THEN 0 ELSE watch
  /\ UNCHANGED <<text, version, unlinked>>

\* A new file after Remove or Rename.
Create ==
  /\ path = 0
  /\ edits < MaxEdits
  /\ edits' = edits + 1
  /\ missed' = missed \cup Early
  /\ path' = edits + 2
  /\ \E t \in Texts : SetText(edits + 2, t)
  /\ UNCHANGED <<mode, unlinked, watch, events, pc, handle, read, users, exited>>

\* An inode is deleted when nobody has it open.
DeleteInode(i) ==
  /\ i \in unlinked
  /\ \A l \in Loaders : handle[l] # i
  /\ unlinked' = unlinked \ {i}
  /\ Notify(i, "remove")
  /\ watch' = IF watch = i THEN 0 ELSE watch
  /\ UNCHANGED <<mode, path, text, version, edits, missed, pc, handle, read, users, exited>>

Process ==
  \/ WatchFileForUpdates \/ filterEvent \/ WaitForReplacement
  \/ \E l \in Loaders : Open(l) \/ Read(l) \/ Store(l)

Next ==
  \/ Process
  \/ Write \/ Replace \/ Remove \/ Rename \/ Create
  \/ \E i \in Inodes : DeleteInode(i)

Spec == Init /\ [][Next]_vars

\* The goroutines go on and the system deletes what nobody uses; nobody has to
\* edit the file.
Fairness ==
  /\ WF_vars(WatchFileForUpdates) /\ WF_vars(filterEvent) /\ WF_vars(WaitForReplacement)
  /\ \A l \in Loaders : WF_vars(Open(l) \/ Read(l) \/ Store(l))
  /\ \A i \in Inodes : WF_vars(DeleteInode(i))

FairSpec == Spec /\ Fairness

-----------------------------------------------------------------------------
\* The map of users is that of the file, if that can be loaded.
UpToDate ==
  exited \/ path = 0 \/ ~Loads(text[path]) \/ users.version = version[path]

\* Once the file is left alone the map becomes that of the file: of the edits
\* after the start that write, replace or remove the file, none is lost,
\* whatever edits, events and loads overtake each other.
EventuallyLoaded == <>[](missed # {} \/ UpToDate)

\* A running proxy with an htpasswd file has users: a file that is read while it
\* is being written, is broken or is missing leaves the map as it was.
KeepsLastGood ==
  mode = "htpasswd" /\ pc["constructor"] = "done" /\ ~exited => users.records # {}

\* A load never puts an older version of the htpasswd file over a newer one.
NoRollback == [][mode = "htpasswd" => users'.version >= users.version]_vars
=============================================================================
