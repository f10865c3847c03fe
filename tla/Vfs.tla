-------------------------------- MODULE Vfs --------------------------------
(***************************************************************************)
(* The virtual file system (kernel/vfs.cpp): a table of named nodes that   *)
(* only grows.  A node's name is a pointer into the buffer of its slot,    *)
(* and the buffer of the first free slot is written by calls that fail,    *)
(* too.                                                                    *)
(***************************************************************************)
EXTENDS Integers, Sequences, FiniteSets

CONSTANTS
    Names,          \* the names that fit a buffer of 64, "/" among them
    LongNames,      \* names that do not: more than 63 characters
    Cut,            \* the first 63 characters of each of them
    NoName,         \* the empty name, and what init() leaves in a buffer
    MaxNodes        \* kMaxNodes

ASSUME VfsAssumption ==
    /\ MaxNodes \in Nat \ {0}
    /\ "/" \in Names /\ NoName \notin Names

VARIABLES
    nodes,          \* g_nodes, first g_count entries: what a node's slot holds
    buffers,        \* g_names
    answer          \* the slot of the node the last create returned, or 0

vfs_vars == <<nodes, buffers, answer>>

NodeTypes == {"File", "Directory"}
NodeSlots == 1..MaxNodes

\* find(), and name_exists(), read each name through its buffer.
Found(name) == {i \in DOMAIN nodes : buffers[i] = name}

\* Fault for DirectoryKept: copy_name() is content with the first characters.
CopiesAny(name) == name # NoName

\* copy_name() answers true.  Before it answers, it writes what fits.
Copies(name) == name # NoName /\ name \notin LongNames

Copied(name) == IF name \in LongNames THEN Cut[name] ELSE name

-----------------------------------------------------------------------------
VfsInit ==
    /\ nodes = <<[id |-> 1, type |-> "Directory"]>>
    /\ buffers = [i \in NodeSlots |-> IF i = 1 THEN "/" ELSE NoName]
    /\ answer = 1

\* create_file() and create_directory(), which differ in the type.
CreateNode(name, type) ==
    LET slot == Len(nodes) + 1
        legal == slot <= MaxNodes /\ Found(name) = {}
    IN  /\ buffers' = IF legal /\ name # NoName
                        THEN [buffers EXCEPT ![slot] = Copied(name)] ELSE buffers
        /\ \/ /\ legal /\ Copies(name)
              /\ nodes' = Append(nodes, [id |-> slot, type |-> type])
              /\ answer' = slot
           \/ /\ ~(legal /\ Copies(name))
              /\ answer' = 0
              /\ UNCHANGED nodes

VfsNext ==
    \E name \in Names \cup LongNames \cup {NoName}, type \in NodeTypes :
        CreateNode(name, type)

VfsSpec == VfsInit /\ [][VfsNext]_vfs_vars

-----------------------------------------------------------------------------
(* Properties *)

\* The nodes by their names: find(), as a function.
Directory ==
    [name \in {buffers[i] : i \in DOMAIN nodes} |->
        LET i == CHOOSE i \in Found(name) : \A j \in Found(name) : i <= j
        IN  [id |-> nodes[i].id, type |-> nodes[i].type]]

\* A step of a directory whose entries are added once and stay: a name gets
\* in when it is new, short enough and there is room, then it is found under
\* the id that was answered; a call that answers null changes no entry, and
\* the count is the number of names.
Kept ==
    /\ \A name \in DOMAIN Directory :
         name \in DOMAIN Directory' /\ Directory'[name] = Directory[name]
    /\ IF answer' = 0 THEN Directory' = Directory
       ELSE \E name \in Names \ DOMAIN Directory :
              /\ DOMAIN Directory' = DOMAIN Directory \cup {name}
              /\ Directory'[name].id = answer'
    /\ Len(nodes') = Cardinality(DOMAIN Directory')

DirectoryKept == [][Kept]_vfs_vars
=============================================================================
