--------------------------- MODULE LocalFSCatalog ---------------------------
(***************************************************************************)
(* The localfs catalog (internal/catalog/localfs.go): a tree of table      *)
(* directories whose metadata/ holds one file per version.  ListTables     *)
(* walks the tree, LoadTable takes the last file name in string order.     *)
(* Writers, which are external, publish versions and clean up old ones.    *)
(***************************************************************************)
EXTENDS Naturals, SequencesExt

CONSTANTS
    Paths,       \* table directories: sequences of directory names
    FirstVersion,\* bound: oldest version of a table that is still there
    MaxVersion,  \* bound: last metadata version, below 100
    Naming       \* of each: "hadoop", v9.metadata.json, or "padded", 00009-...

ASSUME LocalFSAssumption ==
    /\ MaxVersion \in 0..99 /\ FirstVersion \in 1..MaxVersion
    /\ Naming \in [Paths -> {"hadoop", "padded"}]
    /\ <<>> \notin Paths

VARIABLES
    made,    \* the directories in which there is a metadata/
    dir,     \* dir[p]: the metadata versions in directory p, {} = no table there
    newest,  \* newest[p]: the last version published
    toWalk,  \* paths the walk has still to visit
    listed,  \* the ids ListTables returned
    found,   \* history: the directory each listed id stands for
    loaded   \* loaded[p]: the version LoadTable last returned for p

treeVars == <<made, dir, newest, toWalk, listed, found, loaded>>

-----------------------------------------------------------------------------
(* A definition preceded by a variant of its name: the variant is a slip   *)
(* that a property below would notice, and no action uses it.              *)

(* A directory name is a sequence of words: joining names with "." makes   *)
(* one name of several words.  A TableID has a namespace, <<>> when it is  *)
(* empty, and a name; both are directory names.                            *)
IdOf(p) == [namespace |-> FlattenSeq(Front(p)), name |-> Last(p)]

TableDir(id) == IF id.namespace = <<>> THEN <<id.name>> ELSE <<id.namespace, id.name>>

(* The file name of a version, in the order of bytes: "." comes before     *)
(* every digit.                                                            *)
Dot == 0
Digits(p, n) ==
    IF n < 10 /\ Naming[p] = "hadoop" THEN <<n + 1>> ELSE <<(n \div 10) + 1, (n % 10) + 1>>
FileName(p, n) == Append(Digits(p, n), Dot)

Before(a, b) ==
    \E i \in DOMAIN a \cap DOMAIN b :
        a[i] < b[i] /\ \A j \in 1..(i - 1) : a[j] = b[j]

FirstInOrder(p) ==
    CHOOSE n \in dir[p] : \A m \in dir[p] \ {n} : Before(FileName(p, n), FileName(p, m))
LastInOrder(p) ==
    CHOOSE n \in dir[p] : \A m \in dir[p] \ {n} : Before(FileName(p, m), FileName(p, n))

-----------------------------------------------------------------------------
TreeInit ==
    /\ made = {}
    /\ dir = [p \in Paths |-> {}]
    /\ newest = [p \in Paths |-> FirstVersion - 1]
    /\ toWalk = Paths
    /\ listed = {}
    /\ found = {}
    /\ loaded = [p \in Paths |-> 0]

(* External: a writer creates the directory, a commit writes the next      *)
(* version into it ...                                                     *)
MakeDirectory(p) ==
    /\ made' = made \cup {p}
    /\ UNCHANGED <<dir, newest, toWalk, listed, found, loaded>>

Publish(p) ==
    /\ p \in made
    /\ newest[p] < MaxVersion
    /\ newest' = [newest EXCEPT ![p] = @ + 1]
    /\ dir' = [dir EXCEPT ![p] = @ \cup {newest[p] + 1}]
    /\ UNCHANGED <<made, toWalk, listed, found, loaded>>

(* ... and may delete the oldest one.                                      *)
CleanUp(p) ==
    /\ Cardinality(dir[p]) > 1
    /\ dir' = [dir EXCEPT ![p] = @ \ {Min(@)}]
    /\ UNCHANGED <<made, newest, toWalk, listed, found, loaded>>

(* ListTables: the walk comes by a directory and looks for metadata/, not  *)
(* at what is in it.                                                       *)
WalkEveryDirectory(p) ==
    /\ p \in toWalk
    /\ toWalk' = toWalk \ {p}
    /\ listed' = listed \cup {IdOf(p)}
    /\ found' = IF p \in made THEN found \cup {p} ELSE found
    /\ UNCHANGED <<made, dir, newest, loaded>>
Walk(p) ==
    /\ p \in toWalk
    /\ toWalk' = toWalk \ {p}
    /\ listed' = IF p \in made THEN listed \cup {IdOf(p)} ELSE listed
    /\ found' = IF p \in made THEN found \cup {p} ELSE found
    /\ UNCHANGED <<made, dir, newest, loaded>>

(* LoadTable, of a table whose directory tableDir finds.                   *)
LoadTable(p) ==
    /\ dir[p] # {}
    /\ TableDir(IdOf(p)) = p
    /\ loaded' = [loaded EXCEPT ![p] = LastInOrder(p)]
    /\ UNCHANGED <<made, dir, newest, toWalk, listed, found>>

TreeNext == \E p \in Paths : MakeDirectory(p) \/ Publish(p) \/ CleanUp(p) \/ Walk(p) \/ LoadTable(p)

-----------------------------------------------------------------------------
(* Properties                                                              *)

(* Every variable keeps its type, and only directories with a metadata/    *)
(* are listed.                                                             *)
TreeTypeOK ==
    /\ made \subseteq Paths /\ found \subseteq made
    /\ \A p \in Paths : dir[p] # {} => p \in made
    /\ dir \in [Paths -> SUBSET (1..MaxVersion)]
    /\ newest \in [Paths -> 0..MaxVersion]
    /\ toWalk \subseteq Paths
    /\ listed = {IdOf(p) : p \in found}
    /\ loaded \in [Paths -> 0..MaxVersion]

(* localfs.go:19: LoadTable returns the highest-numbered metadata file, as *)
(* long as the numbers in the directory have equally many digits; the      *)
(* lexical sort puts v9 after v10.                                         *)
HighestNumbered ==
    [][\A p \in Paths :
         /\ loaded'[p] # loaded[p]
         /\ \A m, n \in dir[p] : Len(Digits(p, m)) = Len(Digits(p, n))
         => loaded'[p] = Max(dir[p])]_treeVars
=============================================================================
