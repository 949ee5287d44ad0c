---------------------------- MODULE RecoveryCopy ----------------------------
(***************************************************************************)
(* Recovery from a recycle bin (recovery.py): pair_recycle_bin turns a     *)
(* scan catalogue into a manifest, copy_from_manifest executes it, again   *)
(* and again until nothing fails.  Copies may be cut short, sources may    *)
(* change or become unreadable after they were catalogued.                 *)
(*                                                                         *)
(* A $I file is what parse_dollar_i makes of it: where the item was on     *)
(* which drive, or nothing.                                                *)
(***************************************************************************)
EXTENDS Integers, Sequences, FiniteSets

CONSTANTS
    Catalogs,  \* the catalogues that may be given: sequences of Record
    Infos,     \* what the $I files may hold: functions from <<sid, name>> to Info
    DirSize,   \* what st_size says of a directory
    MaxRuns,   \* bound on copy runs
    MaxFaults  \* bound on cut copies and changed sources

\* A $I file names the original place (the parts of windows_path_to_rel), or is
\* missing, short or invalid, or has a time or a version 2 length that
\* parse_dollar_i chokes on.
Info == [kind : {"named", "invalid", "raises"}, at : Seq(STRING)]
NoInfo == [kind |-> "invalid", at |-> <<>>]
Roots == {"given", "other"}                               \* the --dest-root of pair, another one
Absent == [of |-> 0, size |-> 0]

VARIABLES
    catalog, infos,
    paired,  \* whether pair has written a manifest, or died of a $I file
    rows,    \* the manifest
    source,  \* the size of each catalogued file now, or Unreadable
    dest,    \* the file at each place a copy may write: a prefix of a source
    dirs,    \* destinations whose parent directories have been made
    copy,    \* the copy run: next row, its --dest-root, and the rows it has dealt with
    cleanly, \* history: some run has ended without a failure
    runs, faults
vars == <<catalog, infos, paired, rows, source, dest, dirs, copy, cleanly, runs, faults>>

Unreadable == -1

\* ---- paths: sequences of names below the destination root

Comparable(p, q) == \A k \in DOMAIN p \cap DOMAIN q : p[k] = q[k]
Above(p, q) == Len(p) < Len(q) /\ Comparable(p, q)
Climbs(p) == \E k \in DOMAIN p : p[k] = ".."

\* ---- pair_recycle_bin

\* A record of a file in a recycle bin, of the categories that are wanted.
Wanted(r) == r.bin /\ r.wanted
Payload(r) == Wanted(r) /\ r.deep /\ r.kind = "R"

\* A $I file whose path would climb out of the destination counts as missing.
Meta(r) ==
    LET info == infos[<<r.sid, r.name>>]
    IN IF info.kind # "named" \/ Climbs(info.at) THEN NoInfo ELSE info

\* Where the deleted item goes, and below it the member of a deleted directory.
Top(r) == IF Meta(r) = NoInfo THEN <<"_orphaned", r.name>> ELSE Meta(r).at
Destination(r) == Top(r) \o r.sub
\* The name of the file itself.
Leaf(r) == IF r.sub = <<>> THEN r.name ELSE r.sub[Len(r.sub)]

Row(i) == [src |-> i, size |-> catalog[i].size, dest |-> Destination(catalog[i]),
           leaf |-> Leaf(catalog[i]), ok |-> Meta(catalog[i]) # NoInfo]
\* The records are taken in the order of the catalogue.
InOrder(S) == {f \in [1..Cardinality(S) -> S] : \A j, k \in DOMAIN f : j < k => f[j] < f[k]}
Candidates == {i \in DOMAIN catalog : Payload(catalog[i])}

Idle == [next |-> 0, root |-> "given", copied |-> {}, skipped |-> {}, failed |-> {}, ended |-> FALSE]

Init ==
    /\ catalog \in Catalogs /\ infos \in Infos /\ paired = "no"
    /\ rows = <<>> /\ source = [i \in DOMAIN catalog |-> catalog[i].size]
    /\ dest = [d \in {} |-> Absent] /\ dirs = {} /\ copy = Idle
    /\ cleanly = FALSE /\ runs = 0 /\ faults = 0

\* Where a copy of the row lands when a directory has taken its place.
Within(row) == Append(row.dest, row.leaf)

\* OverflowError and struct.error are not RecycleBinError.
Chokes == \E i \in Candidates : infos[<<catalog[i].sid, catalog[i].name>>].kind = "raises"

Pair ==
    /\ paired = "no"
    /\ IF Chokes THEN paired' = "aborted" /\ UNCHANGED <<rows, dest>>
       ELSE /\ paired' = "yes"
            /\ \E f \in InOrder(Candidates) : rows' = [k \in DOMAIN f |-> Row(f[k])]
            /\ dest' = [d \in UNION {{rows'[k].dest, Within(rows'[k])} : k \in DOMAIN rows'} |-> Absent]
    /\ UNCHANGED <<catalog, infos, source, dirs, copy, cleanly, runs, faults>>

\* ---- copy_from_manifest

StartCopy(root) ==
    /\ rows # <<>> /\ copy.next = 0 /\ runs < MaxRuns
    /\ copy' = [Idle EXCEPT !.next = 1, !.root = root]
    /\ runs' = runs + 1
    /\ UNCHANGED <<catalog, infos, paired, rows, source, dest, dirs, cleanly, faults>>

Current == rows[copy.next]
Inside(row, root) == ~Climbs(row.dest) /\ root = "given"

IsFile(d) == d \in DOMAIN dest /\ dest[d] # Absent
IsDir(d) == \E e \in dirs : Above(d, e)
\* A file is where a parent directory should be: mkdir raises.
Blocked(row) == \E d \in DOMAIN dest : IsFile(d) /\ Above(d, row.dest)

\* Mutation: nothing counts as copied.
PresentNever(row) == FALSE
\* A directory has a size as well.
Present(row) ==
    \/ IsFile(row.dest) /\ dest[row.dest].size = row.size
    \/ IsDir(row.dest) /\ DirSize = row.size

Done(what) == copy' = [copy EXCEPT !.next = @ + 1, ![what] = @ \cup {copy.next}]
InRun == copy.next \in DOMAIN rows
ToCopy == InRun /\ Inside(Current, copy.root) /\ ~Present(Current)

\* A row whose destination lies elsewhere is refused.
Refuse == InRun /\ ~Inside(Current, copy.root) /\ Done("failed") /\ UNCHANGED <<dest, dirs>>
Skip == InRun /\ Inside(Current, copy.root) /\ Present(Current) /\ Done("skipped") /\ UNCHANGED <<dest, dirs>>

CopyBlocked == ToCopy /\ Blocked(Current) /\ Done("failed") /\ UNCHANGED <<dest, dirs>>

Mkdir(row) == ~Blocked(row) /\ dirs' = dirs \cup {row.dest}

\* copy2 writes into a directory that it finds at the destination.
Target(row) == IF IsDir(row.dest) THEN Within(row) ELSE row.dest
Copyable(row) == source[row.src] # Unreadable /\ ~IsDir(Target(row))
Place(row, n) == dest' = [dest EXCEPT ![Target(row)] = [of |-> row.src, size |-> n]]

\* Mutation: the size is not verified.
VerifiedAlways(row) == Done("copied") /\ Place(row, source[row.src])
\* A copy of the wrong size is removed; a directory has the wrong size and cannot be.
Verified(row) ==
    \/ ~IsDir(row.dest) /\ source[row.src] = row.size /\ Done("copied") /\ Place(row, row.size)
    \/ ~IsDir(row.dest) /\ source[row.src] # row.size /\ Done("failed") /\ dest' = [dest EXCEPT ![row.dest] = Absent]
    \/ IsDir(row.dest) /\ Done("failed") /\ Place(row, source[row.src])

CopyFile == ToCopy /\ Copyable(Current) /\ Mkdir(Current) /\ Verified(Current)

\* The source cannot be opened, or the place is a directory twice over.
CopyFails == ToCopy /\ ~Copyable(Current) /\ Mkdir(Current) /\ Done("failed") /\ UNCHANGED dest

CopyStep ==
    /\ Refuse \/ Skip \/ CopyBlocked \/ CopyFile \/ CopyFails
    /\ UNCHANGED <<catalog, infos, paired, rows, source, cleanly, runs, faults>>

\* A read or a write fails in the middle, or the program is killed there: the
\* part that was copied stays.
CutCopy ==
    /\ ToCopy /\ faults < MaxFaults
    /\ \/ UNCHANGED <<dest, dirs>>
       \/ Mkdir(Current) /\ UNCHANGED dest
       \/ Mkdir(Current) /\ Copyable(Current) /\ \E n \in 0..source[Current.src] : Place(Current, n)
    /\ Done("failed") \/ copy' = Idle
    /\ faults' = faults + 1
    /\ UNCHANGED <<catalog, infos, paired, rows, source, cleanly, runs>>

EndCopy ==
    /\ copy.next > Len(rows) /\ rows # <<>>
    /\ copy' = [copy EXCEPT !.next = 0, !.ended = TRUE]
    /\ cleanly' = (cleanly \/ copy.failed = {})
    /\ UNCHANGED <<catalog, infos, paired, rows, source, dest, dirs, runs, faults>>

SourceChanges(i) ==
    /\ faults < MaxFaults /\ faults' = faults + 1
    /\ \E n \in {Unreadable, catalog[i].size + 1} : source' = [source EXCEPT ![i] = n]
    /\ UNCHANGED <<catalog, infos, paired, rows, dest, dirs, copy, cleanly, runs>>

Next ==
    \/ Pair
    \/ \E root \in Roots : StartCopy(root)
    \/ CopyStep
    \/ CutCopy
    \/ EndCopy
    \/ \E i \in DOMAIN catalog : SourceChanges(i)

Spec == Init /\ [][Next]_vars

-----------------------------------------------------------------------------
\* ---- properties

Collide(i, j) == i # j /\ rows[i].dest = rows[j].dest
NoCollisions == \A i, j \in DOMAIN rows : ~Collide(i, j)
\* One destination is the other or lies below it.
Clash(i, j) == i # j /\ Comparable(rows[i].dest, rows[j].dest)

\* The rows of two deleted items clash only if one item was deleted from the place of
\* the other or from below it, or both are orphans of one name.
ClashesExplained ==
    \A i, j \in DOMAIN rows : Clash(i, j) =>
        LET r == catalog[rows[i].src]
            q == catalog[rows[j].src]
        IN rows[i].ok = rows[j].ok
           /\ IF rows[i].ok THEN Comparable(Meta(r).at, Meta(q).at) ELSE r.name = q.name

\* Another row goes to the destination, or lands there out of a directory that took
\* its own; or a directory is there that passes for the file.
Shared(i) ==
    \/ \E j \in DOMAIN rows \ {i} : rows[i].dest \in {rows[j].dest, Within(rows[j])}
    \/ rows[i].size = DirSize /\ \E j \in DOMAIN rows : Above(rows[i].dest, rows[j].dest)

\* When a run ends, each row whose destination is its own has its whole file
\* there, or the run has reported it.
RecoveredOrReported ==
    copy.ended => \A i \in DOMAIN rows :
        i \in copy.failed \/ Shared(i)
        \/ dest[rows[i].dest] = [of |-> rows[i].src, size |-> rows[i].size]

\* As long as sources can be read, nothing is cut and the root is the one given to
\* pair, a row fails only if it clashes with another: a path that climbs is
\* recovered as an orphan.
NothingRefused ==
    faults = 0 /\ copy.root = "given" =>
        \A i \in copy.failed : \E j \in DOMAIN rows : Clash(i, j)

\* Once a run has ended without a failure, a run copies nothing more.
ReinvokedCopiesNothing == [][cleanly /\ NoCollisions => copy'.copied = {} \/ copy'.copied = copy.copied]_vars

\* The same whatever collides (recovery.py: "Idempotent").
Idempotent == [][cleanly => copy'.copied = {} \/ copy'.copied = copy.copied]_vars

\* A $I file that cannot be parsed makes an orphan (pair_recycle_bin: "missing or
\* unparseable is still recovered, under _orphaned/").
UnparseableIsOrphaned == paired # "aborted"

\* Every wanted file has a destination it shares with no other file by mistake,
\* and is there or reported when a run ends.
RecoveryInvariant == ClashesExplained /\ RecoveredOrReported /\ NothingRefused
=============================================================================
