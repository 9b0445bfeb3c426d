----------------------------- MODULE SshKeyFiles -----------------------------
(***************************************************************************)
(* The keys of ~/.ssh as the agent knows them: EggFileTracker, which looks  *)
(* at modification times, and GcrSshAgentPreload, which keeps what it read  *)
(* of each .pub file in two tables.  The user writes and removes files at   *)
(* any time; times are in seconds.                                          *)
(***************************************************************************)
EXTENDS Integers, Sequences, SequencesExt, FiniteSets, Functions

CONSTANTS
    File,         \* names: a .pub file and the private key beside it
    Keys,         \* the public keys a .pub file may hold
    MaxSeconds,   \* bound: how long the user goes on
    MaxInfos      \* bound: files read

VARIABLES
    clock,        \* the time
    pub,          \* file -> <<>>, or its <<key, mtime>>
    private,      \* the files whose private key is there
    directory,    \* the directory's modification time
    files,        \* the tracker's table: file -> mtime
    seenDir,      \* the directory's mtime the tracker has seen
    infos,        \* what was read, in order: [key, file, freed]
    byFile,       \* keys_by_public_filename: file -> place in infos
    byKey,        \* keys_by_public_key: key -> place in infos
    fresh,        \* a refresh was the last thing that happened
    blind         \* a change that modification times do not show, or one key
                  \* in two files, of which the tables know one (history)

fvars == <<clock, pub, private, directory, files, seenDir, infos, byFile, byKey, fresh, blind>>

Nothing == [x \in {} |-> 0]
Without(f, x) == Restrict(f, DOMAIN f \ {x})
With(f, x, v) == [y \in DOMAIN f \cup {x} |-> IF y = x THEN v ELSE f[y]]

FInit ==
    /\ clock = 1 /\ directory = 0 /\ seenDir = -1
    /\ pub = [f \in File |-> <<>>] /\ private = {}
    /\ files = Nothing /\ byFile = Nothing /\ byKey = Nothing
    /\ infos = <<>> /\ fresh = FALSE /\ blind = FALSE

-----------------------------------------------------------------------------
(* The user. *)

\* One key in two files: the tables cannot hold that.
Doubled(p) == \E f, g \in File : f # g /\ p[f] # <<>> /\ p[g] # <<>> /\ p[f][1] = p[g][1]

Tick ==
    /\ clock < MaxSeconds /\ clock' = clock + 1
    /\ UNCHANGED <<pub, private, directory, files, seenDir, infos, byFile, byKey, fresh, blind>>

\* A file that is made or removed changes the directory; one that is written
\* again only itself.
WritePub(f, k) ==
    /\ IF pub[f] = <<>> THEN TRUE ELSE pub[f][1] # k
    /\ pub' = [pub EXCEPT ![f] = <<k, clock>>]
    /\ directory' = IF pub[f] = <<>> THEN clock ELSE directory
    /\ blind' = (\/ blind \/ Doubled(pub')
                 \/ k \in DOMAIN byKey /\ infos[byKey[k]].file # f
                 \/ pub[f] = <<>> /\ seenDir = clock
                 \/ f \in DOMAIN files /\ files[f] = clock)
    /\ fresh' = FALSE
    /\ UNCHANGED <<clock, private, files, seenDir, infos, byFile, byKey>>

RemovePub(f) ==
    /\ pub[f] # <<>>
    /\ pub' = [pub EXCEPT ![f] = <<>>]
    /\ directory' = clock
    /\ fresh' = FALSE
    /\ UNCHANGED <<clock, private, files, seenDir, infos, byFile, byKey, blind>>

\* The private key comes or goes: nobody looks at it again while the .pub file
\* stays as it was.
TogglePrivate(f) ==
    /\ private' = (private \ {f}) \cup ({f} \ private)
    /\ directory' = clock
    /\ blind' = (blind \/ f \in DOMAIN files)
    /\ fresh' = FALSE
    /\ UNCHANGED <<clock, pub, files, seenDir, infos, byFile, byKey>>

-----------------------------------------------------------------------------
(* The tracker and the tables, as a record t of files, seenDir, infos, byFile *)
(* and byKey.                                                                 *)

\* Mutant: the key stays in the other table.
FileRemoveHalf(t, f) == [t EXCEPT !.byFile = Without(@, f)]

\* file_remove_inlock.  What keys_by_public_key no longer has is freed; the other
\* table may still point at it, and then a key is read that is gone: what memory
\* holds is likely still the old one.
FileRemove(t, f) ==
    IF f \notin DOMAIN t.byFile THEN t
    ELSE LET info == t.infos[t.byFile[f]]
             owner == IF info.key \in DOMAIN t.byKey THEN t.byKey[info.key] ELSE 0
         IN  [t EXCEPT !.byFile = Without(@, f),
                       !.byKey = Without(@, info.key),
                       !.infos = [i \in DOMAIN @ |-> [@[i] EXCEPT !.freed = @ \/ i = owner]]]

\* file_load_inlock: what the file held is forgotten first; without a private key
\* nothing is kept.  g_hash_table_replace frees what had the key before.
FileLoad(t0, f) ==
    LET t == FileRemove(t0, f)
        k == pub[f][1]
        n == Len(t.infos) + 1
        old == IF k \in DOMAIN t.byKey THEN t.byKey[k] ELSE 0
    IN  IF f \notin private THEN t
        ELSE [t EXCEPT !.infos = Append([i \in DOMAIN @ |-> [@[i] EXCEPT !.freed = @ \/ i = old]],
                                        [key |-> k, file |-> f, freed |-> FALSE]),
                       !.byFile = With(@, f, n), !.byKey = With(@, k, n)]

\* update_file, of a file that is there.
UpdateFile(t, f) ==
    IF pub[f] = <<>> \/ t.files[f] = pub[f][2] THEN t
    ELSE FileLoad([t EXCEPT !.files[f] = pub[f][2]], f)

\* A file in the list of the directory: added, or had already.
ListFile(t, f) ==
    IF f \in DOMAIN t.files THEN UpdateFile(t, f)
    ELSE FileLoad([t EXCEPT !.files = With(@, f, pub[f][2])], f)

\* remove_files.
RemoveFile(t, f) == FileRemove([t EXCEPT !.files = Without(@, f)], f)

\* egg_file_tracker_refresh and update_directory, in the order the directory or
\* the table has: the directory is listed when it has changed, else each file is
\* looked at; then what was not there any more is removed.
Refresh(t, order) ==
    LET Known(s) == SelectSeq(order, LAMBDA f : f \in DOMAIN s.files)
        there == SelectSeq(order, LAMBDA f : pub[f] # <<>>)
        gone == SelectSeq(Known(t), LAMBDA f : pub[f] = <<>>)
        updated == IF t.seenDir = directory THEN FoldLeft(UpdateFile, t, Known(t))
                   ELSE FoldLeft(ListFile, [t EXCEPT !.seenDir = directory], there)
    IN  FoldLeft(RemoveFile, updated, gone)

\* gcr_ssh_agent_preload_get_keys and gcr_ssh_agent_preload_lookup_by_public_key,
\* under the lock: both refresh first.
GetKeys ==
    /\ Len(infos) + Cardinality(File) =< MaxInfos
    /\ \E order \in SetToSeqs(File) :
         LET t == Refresh([files |-> files, seenDir |-> seenDir, infos |-> infos,
                           byFile |-> byFile, byKey |-> byKey], order)
         IN  /\ files' = t.files /\ seenDir' = t.seenDir /\ infos' = t.infos
             /\ byFile' = t.byFile /\ byKey' = t.byKey
    /\ fresh' = TRUE
    /\ UNCHANGED <<clock, pub, private, directory, blind>>

FNext ==
    \/ Tick \/ GetKeys
    \/ \E f \in File : RemovePub(f) \/ TogglePrivate(f) \/ \E k \in Keys : WritePub(f, k)

-----------------------------------------------------------------------------
\* A file a key was read from is never handed out after it was freed, and the
\* keys that are listed right after a refresh are those of the .pub files whose
\* private key is there, each with its own file: unless a change fell into the
\* second in which the tracker looked, a private key came or went behind a .pub
\* file that stayed, or two files had the same key, one after the other included:
\* a pair of files that is renamed between two looks hides its key.
KeysCurrent ==
    /\ \A k \in DOMAIN byKey : ~infos[byKey[k]].freed /\ infos[byKey[k]].key = k
    /\ (fresh /\ ~blind) =>
          /\ DOMAIN byKey = {pub[f][1] : f \in {f \in private : pub[f] # <<>>}}
          /\ \A k \in DOMAIN byKey : pub[infos[byKey[k]].file][1] = k
          /\ \A f \in DOMAIN byFile : ~infos[byFile[f]].freed
=============================================================================
