------------------------------- MODULE Presets -------------------------------
(* The store of preset files (file_store.rs: PresetFileStore): the list of *)
(* an engine's presets is kept under the stamp the folder had before it    *)
(* was scanned; the mutex guards the cache only, not the folder. Threads   *)
(* list, create, update, rename and delete at once, antivirus programs     *)
(* hold files. A preset is its file name and the title in its header.      *)
EXTENDS Integers, Sequences

CONSTANTS
    StoreThreads,
    CallsOf,           \* CallsOf[t]: the calls a thread makes in an instance
    Names,             \* file names; Variants[n]: n, n (2), n (3), ...
    Wanted,            \* the names new presets are given
    Variants,
    Titles,
    Builtin,           \* the folder of the program: [Names -> Titles or Absent]
    UserAtStart,       \* what the user's folder may hold at first
    Holdable,          \* the files other programs may hold
    MaxCalls, MaxStamp, MaxBucket        \* bounds of an instance

ASSUME PsAssumption ==
    /\ MaxStamp \in Nat /\ MaxBucket \in Nat /\ Holdable \subseteq Names
    /\ UserAtStart \subseteq [Names -> Titles \union {"absent"}]

VARIABLES
    user,              \* the user's folder: [Names -> Titles or Absent]
    stamp,             \* its time of modification
    held,              \* files an other program keeps from being read or replaced
    bucket,            \* the clock, in periods of DEGRADED_SCAN_TTL_SEC
    manifestCache,     \* <<>> or one entry: key, bucket of a degraded scan, list
    opOf, storePc, keyOf, namesSeen, listed, fileOf,   \* per thread: the call and its locals
    begunIn,           \* history: the period in which a thread's load began
    callsBegun,
    calm,              \* history: the folder kept still since the load began
    sameStamp,         \* history: a change left the stamp as it was
    lastHeld           \* history: the last period in which a file was held, or NeverHeld

folderVars == <<user, stamp, sameStamp>>
heldVars == <<held, bucket, lastHeld>>
storeCallVars == <<opOf, keyOf, namesSeen, listed, fileOf, begunIn>>
psVars == <<folderVars, heldVars, storeCallVars, manifestCache, storePc, callsBegun, calm>>

Absent == "absent"
Stem == "stem"         \* the title of a file that cannot be read: its name
NotDegraded == -1
NeverHeld == -2
Nothing == [scope |-> "none", title |-> Absent]
NoOp == [kind |-> "none", name |-> "", title |-> ""]
Whatever == [n \in Names |-> Nothing]

Ops == [kind : {"list"}, name : {""}, title : {""}]
         \union [kind : {"create"}, name : Wanted, title : Titles]
         \union [kind : {"update"}, name : Names, title : Titles]
         \union [kind : {"rename"}, name : Names, title : {""}]
         \union [kind : {"delete"}, name : Names, title : {""}]

Entries == [scope : {"none", "builtin", "user"},
            title : Titles \union {Absent, Stem} \union {Builtin[n] : n \in Names}]
CacheEntries == [key : 0..MaxStamp, list : [Names -> Entries], period : NotDegraded..MaxBucket]
StoreLabels == {"idle", "look", "names", "headers", "insert", "loaded", "temp", "replace", "drop"}

PsTypeOK ==
    /\ user \in [Names -> Titles \union {Absent}]
    /\ stamp \in 0..MaxStamp /\ sameStamp \in BOOLEAN
    /\ held \subseteq Names /\ bucket \in 0..MaxBucket
    /\ lastHeld \in [Names -> NeverHeld..MaxBucket]
    /\ manifestCache \in Seq(CacheEntries) /\ Len(manifestCache) <= 1
    /\ opOf \in [StoreThreads -> Ops \union {NoOp}]
    /\ storePc \in [StoreThreads -> StoreLabels]
    /\ keyOf \in [StoreThreads -> 0..MaxStamp]
    /\ namesSeen \in [StoreThreads -> SUBSET Names]
    /\ listed \in [StoreThreads -> [Names -> Entries]]
    /\ begunIn \in [StoreThreads -> 0..MaxBucket]
    /\ calm \in [StoreThreads -> BOOLEAN]

PsInit ==
    /\ user \in UserAtStart /\ stamp = 0 /\ sameStamp = FALSE
    /\ held = {} /\ bucket = 0 /\ lastHeld = [n \in Names |-> NeverHeld]
    /\ manifestCache = <<>> /\ callsBegun = [t \in StoreThreads |-> 0]
    /\ opOf = [t \in StoreThreads |-> NoOp] /\ storePc = [t \in StoreThreads |-> "idle"]
    /\ keyOf = [t \in StoreThreads |-> 0] /\ namesSeen = [t \in StoreThreads |-> {}]
    /\ listed = [t \in StoreThreads |-> Whatever] /\ fileOf = [t \in StoreThreads |-> ""]
    /\ begunIn = [t \in StoreThreads |-> 0]
    /\ calm = [t \in StoreThreads |-> FALSE]

-----------------------------------------------------------------------------
Goto(t, label) == storePc' = [storePc EXCEPT ![t] = label]
At(t, label) == storePc[t] = label

(* What a scan finds in a still folder: a user's file hides the program's. *)
BuiltinEntry(n) ==
    IF Builtin[n] = Absent THEN Nothing ELSE [scope |-> "builtin", title |-> Builtin[n]]

Contents ==
    [n \in Names |-> IF user[n] = Absent THEN BuiltinEntry(n)
                     ELSE [scope |-> "user", title |-> user[n]]]

(* The folder changes, and its stamp, unless the change falls into the     *)
(* same tick of the file system's clock as the one before.                 *)
Touch(files) ==
    /\ user' = files
    /\ \E s \in {stamp, stamp + 1} \intersect 0..MaxStamp :
          stamp' = s /\ sameStamp' = (sameStamp \/ (s = stamp /\ files # user))
    /\ calm' = [t \in StoreThreads |-> calm[t] /\ files = user]

Invalidate == manifestCache' = <<>>

(* A call ends; its locals are of no more use. *)
EndCall(t) ==
    /\ Goto(t, "idle")
    /\ opOf' = [opOf EXCEPT ![t] = NoOp] /\ keyOf' = [keyOf EXCEPT ![t] = 0]
    /\ namesSeen' = [namesSeen EXCEPT ![t] = {}] /\ listed' = [listed EXCEPT ![t] = Whatever]
    /\ fileOf' = [fileOf EXCEPT ![t] = ""] /\ begunIn' = [begunIn EXCEPT ![t] = 0]

(* A call begins: create looks for a free name, the others load the list,  *)
(* whose key is taken before anything else.                                *)
Free(n, excluded) ==
    LET taken(v) == (user[v] # Absent \/ Builtin[v] # Absent) /\ v # excluded
        open == SelectSeq(Variants[n], LAMBDA v : ~taken(v))
    IN  IF open = <<>> THEN "" ELSE Head(open)

BeginCall(t) ==
    /\ At(t, "idle") /\ callsBegun[t] < MaxCalls[t] /\ ~sameStamp
    /\ callsBegun' = [callsBegun EXCEPT ![t] = @ + 1]
    /\ \E o \in {p \in Ops : p.kind \in CallsOf[t]} :
          /\ opOf' = [opOf EXCEPT ![t] = o]
          /\ IF o.kind = "create"
             THEN /\ Free(o.name, "") # ""
                  /\ fileOf' = [fileOf EXCEPT ![t] = Free(o.name, "")]
                  /\ Goto(t, "temp") /\ UNCHANGED <<keyOf, calm, begunIn>>
             ELSE /\ keyOf' = [keyOf EXCEPT ![t] = stamp]
                  /\ calm' = [calm EXCEPT ![t] = TRUE]
                  /\ begunIn' = [begunIn EXCEPT ![t] = bucket]
                  /\ Goto(t, "look") /\ UNCHANGED fileOf
    /\ UNCHANGED <<folderVars, heldVars, namesSeen, listed, manifestCache>>

(* load_manifests: the cache under its lock ... *)
Hit(t) ==
    /\ manifestCache # <<>> /\ manifestCache[1].key = keyOf[t]
    /\ manifestCache[1].period \in {NotDegraded, bucket}

LookInCache(t) ==
    /\ At(t, "look")
    /\ IF Hit(t)
       THEN listed' = [listed EXCEPT ![t] = manifestCache[1].list] /\ Goto(t, "loaded")
       ELSE Goto(t, "names") /\ UNCHANGED listed
    /\ UNCHANGED <<folderVars, heldVars, manifestCache, opOf, keyOf, namesSeen, fileOf, begunIn,
                   callsBegun, calm>>

(* ... then the names in the folder, their headers, and the list goes into *)
(* the cache under the key of the beginning.                               *)
ListNames(t) ==
    /\ At(t, "names")
    /\ namesSeen' = [namesSeen EXCEPT ![t] = {n \in Names : user[n] # Absent}]
    /\ Goto(t, "headers")
    /\ UNCHANGED <<folderVars, heldVars, manifestCache, opOf, keyOf, listed, fileOf, begunIn,
                   callsBegun, calm>>

Unreadable(n) == n \in held \/ user[n] = Absent

ReadHeaders(t) ==
    /\ At(t, "headers")
    /\ listed' = [listed EXCEPT ![t] = [n \in Names |->
          IF n \notin namesSeen[t] THEN BuiltinEntry(n)
          ELSE [scope |-> "user", title |-> IF Unreadable(n) THEN Stem ELSE user[n]]]]
    /\ Goto(t, "insert")
    /\ UNCHANGED <<folderVars, heldVars, manifestCache, opOf, keyOf, namesSeen, fileOf, begunIn,
                   callsBegun, calm>>

Degraded(list) == \E n \in Names : list[n].title = Stem

(* Mutant of InsertList: the list is kept under the stamp of now. *)
InsertUnderNewStamp(t) ==
    /\ At(t, "insert")
    /\ manifestCache' = <<[key |-> stamp, list |-> listed[t],
                           period |-> IF Degraded(listed[t]) THEN bucket ELSE NotDegraded]>>
    /\ Goto(t, "loaded")
    /\ UNCHANGED <<folderVars, heldVars, storeCallVars, callsBegun, calm>>

InsertList(t) ==
    /\ At(t, "insert")
    /\ manifestCache' = <<[key |-> keyOf[t], list |-> listed[t],
                           period |-> IF Degraded(listed[t]) THEN bucket ELSE NotDegraded]>>
    /\ Goto(t, "loaded")
    /\ UNCHANGED <<folderVars, heldVars, storeCallVars, callsBegun, calm>>

(* What the call does with the list. *)
HandList(t) ==
    /\ At(t, "loaded") /\ opOf[t].kind = "list"
    /\ EndCall(t)
    /\ UNCHANGED <<folderVars, heldVars, manifestCache, callsBegun, calm>>

(* The text on disk, of the folder the list says; one that cannot be read  *)
(* counts as empty.                                                        *)
CurrentText(n, scope) ==
    IF scope = "builtin" THEN Builtin[n] ELSE IF Unreadable(n) THEN "" ELSE user[n]

CompareText(t) ==
    LET o == opOf[t]
        found == listed[t][o.name]
    IN  /\ At(t, "loaded") /\ o.kind = "update"
        /\ IF found = Nothing \/ CurrentText(o.name, found.scope) = o.title
           THEN EndCall(t)
           ELSE /\ fileOf' = [fileOf EXCEPT ![t] = o.name]
                /\ Goto(t, "temp") /\ UNCHANGED <<opOf, keyOf, namesSeen, listed, begunIn>>
        /\ UNCHANGED <<folderVars, heldVars, manifestCache, callsBegun, calm>>

(* atomic_write_text: a temporary file, then the replacement. The file is  *)
(* untouched if an other program holds it to the end of the retries; the   *)
(* cache is not invalidated then.                                          *)
WriteTemp(t) ==
    /\ At(t, "temp") /\ Touch(user) /\ Goto(t, "replace")
    /\ UNCHANGED <<heldVars, storeCallVars, manifestCache, callsBegun>>

ReplaceFile(t) ==
    /\ At(t, "replace")
    /\ \/ /\ fileOf[t] \notin held
          /\ Touch([user EXCEPT ![fileOf[t]] = opOf[t].title])
          /\ Goto(t, "drop") /\ UNCHANGED storeCallVars
       \/ fileOf[t] \in held /\ Touch(user) /\ EndCall(t)
    /\ UNCHANGED <<heldVars, manifestCache, callsBegun>>

DropCache(t) ==
    /\ At(t, "drop") /\ Invalidate /\ EndCall(t)
    /\ UNCHANGED <<folderVars, heldVars, callsBegun, calm>>

(* Only a user's preset is renamed, to a name free now. The rename         *)
(* replaces what got that name in between.                                 *)
RenameFile(t) ==
    LET n == opOf[t].name
    IN  /\ At(t, "loaded") /\ opOf[t].kind = "rename"
        /\ \/ /\ listed[t][n].scope # "user" \/ (n \in held /\ user[n] # Absent)
              /\ EndCall(t) /\ UNCHANGED <<folderVars, calm>>
           \/ /\ listed[t][n].scope = "user" /\ (n \notin held \/ user[n] = Absent)
              /\ \E m \in Wanted :
                    LET dest == Free(m, n)
                    IN  /\ dest # ""
                        /\ IF user[n] = Absent \/ dest = n
                           THEN UNCHANGED <<folderVars, calm>>
                           ELSE Touch([user EXCEPT ![n] = Absent, ![dest] = user[n]])
              /\ Goto(t, "drop") /\ UNCHANGED storeCallVars
        /\ UNCHANGED <<heldVars, manifestCache, callsBegun>>

DeleteFile(t) ==
    LET n == opOf[t].name
    IN  /\ At(t, "loaded") /\ opOf[t].kind = "delete"
        /\ \/ /\ listed[t][n].scope # "user" \/ (n \in held /\ user[n] # Absent)
              /\ EndCall(t) /\ UNCHANGED <<folderVars, calm>>
           \/ /\ listed[t][n].scope = "user" /\ (n \notin held \/ user[n] = Absent)
              /\ IF user[n] = Absent THEN UNCHANGED <<folderVars, calm>>
                 ELSE Touch([user EXCEPT ![n] = Absent])
              /\ Goto(t, "drop") /\ UNCHANGED storeCallVars
        /\ UNCHANGED <<heldVars, manifestCache, callsBegun>>

(* Other programs take and release files; the clock goes on. *)
TakeFile(n) ==
    /\ n \notin held /\ user[n] # Absent
    /\ held' = held \union {n} /\ lastHeld' = [lastHeld EXCEPT ![n] = bucket]
    /\ UNCHANGED <<folderVars, storeCallVars, bucket, manifestCache, storePc, callsBegun, calm>>

ReleaseFile(n) ==
    /\ n \in held /\ held' = held \ {n}
    /\ UNCHANGED <<folderVars, storeCallVars, bucket, lastHeld, manifestCache, storePc,
                   callsBegun, calm>>

(* The folder is read in less than a period: no load sees the ends of two. *)
PeriodEnds ==
    /\ bucket < MaxBucket /\ bucket' = bucket + 1
    /\ \A t \in StoreThreads :
          storePc[t] \in {"look", "names", "headers", "insert"} => begunIn[t] = bucket
    /\ lastHeld' = [n \in Names |-> IF n \in held THEN bucket + 1 ELSE lastHeld[n]]
    /\ UNCHANGED <<folderVars, storeCallVars, held, manifestCache, storePc, callsBegun, calm>>

PsNext ==
    \/ \E t \in StoreThreads :
          \/ BeginCall(t) \/ LookInCache(t) \/ ListNames(t) \/ ReadHeaders(t) \/ InsertList(t)
          \/ HandList(t) \/ CompareText(t) \/ RenameFile(t) \/ DeleteFile(t)
          \/ WriteTemp(t) \/ ReplaceFile(t) \/ DropCache(t)
    \/ \E n \in Holdable : TakeFile(n) \/ ReleaseFile(n)
    \/ PeriodEnds

PsSpec == PsInit /\ [][PsNext]_psVars

-----------------------------------------------------------------------------
(* A list loaded while the folder kept still is the folder, whatever the   *)
(* threads had put into the cache before; a title may be the file's name   *)
(* if the file was held in the period the load began, the one before it or *)
(* a later one: what an antivirus program hid comes back.                  *)
ListIsFresh ==
    \A t \in StoreThreads :
        At(t, "loaded") /\ calm[t] /\ ~sameStamp =>
            \A n \in Names :
                \/ listed[t][n] = Contents[n]
                \/ /\ lastHeld[n] >= begunIn[t] - 1
                   /\ listed[t][n] = [Contents[n] EXCEPT !.title = Stem]
=============================================================================
