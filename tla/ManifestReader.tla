--------------------------- MODULE ManifestReader ---------------------------
(***************************************************************************)
(* The application reader (kernel/app_reader.cpp).  It has two readers of  *)
(* the same text: parse() lists its entries, read_manifest() picks out the *)
(* fields it needs.  A manifest is a sequence of lines, and a line is what *)
(* is left of its characters: the key, whether blanks separate it from the *)
(* '=', and the value with the blanks around it trimmed.  Left out are the *)
(* cuts of a value at 127 characters and of a line at 255.                 *)
(***************************************************************************)
EXTENDS Integers, Sequences, FiniteSets

CONSTANTS
    MaxEntries,     \* kMaxEntries: slots of g_entries
    Values,         \* the values a line can have
    ExtensionOf,    \* the extension of each value read as a path, or ""
    Lines,          \* the lines a manifest can have
    MaxText,        \* kMaxManifestText, counted in lines
    Disks,          \* sets of manifests: those that the callers have
    Paths           \* the values that are given as the path of a package

Empty == ""
NoKey == ""         \* of an empty line, a comment, a section or plain text
Keys == {"name", "version", "package", "runtime", "entry", "network", "isolated"}
Line == [key : Keys \cup {NoKey}, spaced : BOOLEAN, value : Values \cup {Empty}]

ASSUME ReaderAssumption ==
    /\ MaxEntries \in Nat \ {0}
    /\ ExtensionOf \in [Values -> STRING]
    /\ Lines \subseteq Line
    /\ MaxText \in Nat
    /\ \A disk \in Disks : disk \subseteq Seq(Lines)
    /\ Paths \subseteq Values

Nothing == <<>>

VARIABLES
    disk,       \* the manifests of this run
    entries,    \* g_entries[0..g_count)
    text,       \* the strings of read_manifest()'s static Manifest
    held,       \* the Manifest some caller has kept, of read_manifest(); its
                \* strings are pointers, to text
    parsed,     \* history: the manifest parse() was last called with
    read,       \* history: the manifest read_manifest() last accepted
    accepted    \* history: what validate_package() last accepted

vars == <<disk, entries, text, held, parsed, read, accepted>>

NoManifest == [of |-> Nothing, network |-> FALSE, isolated |-> FALSE]

-----------------------------------------------------------------------------
(* Extensions and runtimes *)

NativeExtensions == {".pea", ".xpea", ".peac"}
SupportedExtensions == NativeExtensions \cup {".exe", ".dll", ".apk", ".aab"}

IsNative(v) == ExtensionOf[v] \in NativeExtensions
IsSupported(v) == ExtensionOf[v] \in SupportedExtensions

KnownRuntimes == {"native", "pea", "x90", "fusion", "x90-fusion", "web", "web-sandbox"}

RuntimeFrom(v) ==
    CASE v \in {"x90", "fusion", "x90-fusion"} -> "X90Fusion"
      [] v \in {"web", "web-sandbox"} -> "WebSandbox"
      [] OTHER -> "Native"

-----------------------------------------------------------------------------
(* parse() and find() *)

Entry(l) == [name |-> l.key, runtime |-> RuntimeFrom(l.value),
             native |-> IsNative(l.value), supported |-> IsSupported(l.value)]

\* The lines that become an entry: the blanks around a key do not matter.
Listed(l) == l.key \in Keys /\ l.value # Empty

\* One turn of the loop of parse(), which ends when the table is full.
Taken(es, l) ==
    IF Listed(l) /\ Len(es) < MaxEntries THEN Append(es, Entry(l)) ELSE es

Parsed(m) ==
    LET after[n \in 0..Len(m)] ==               \* n turns
          IF n = 0 THEN <<>> ELSE Taken(after[n - 1], m[n])
    IN  IF Len(m) > MaxText THEN <<>> ELSE after[Len(m)]

\* The entries find() returns for a name: one or none.
Found(es, k) ==
    {es[i] : i \in {j \in 1..Len(es) :
        /\ es[j].name = k
        /\ \A h \in 1..(j - 1) : es[h].name # k}}

-----------------------------------------------------------------------------
(* value() and read_manifest() *)

\* Fault for AgreesWithParser: value() stops at the first line with the key.
HasFirst(l, k) == l.key = k /\ ~l.spaced

\* The lines key_value() takes: the '=' must follow the key at once.
Has(l, k) == l.key = k /\ ~l.spaced /\ l.value # Empty

\* The value of the first such line, or the empty one.
Value(m, k) ==
    IF \E i \in 1..Len(m) : Has(m[i], k)
    THEN m[CHOOSE i \in 1..Len(m) :
             Has(m[i], k) /\ \A j \in 1..(i - 1) : ~Has(m[j], k)].value
    ELSE Empty

Required == {"name", "package", "runtime", "entry"}
Fields == Required \cup {"version"}

Readable(m) ==
    /\ Len(m) <= MaxText
    /\ \A k \in Required : Value(m, k) # Empty
    /\ Value(m, "runtime") \in KnownRuntimes

Strings(m) == [k \in Fields |-> Value(m, k)]
NoStrings == [k \in Fields |-> Empty]

Truthy(m, k) == Value(m, k) \in {"1", "true", "yes"}

\* What *out is after read_manifest(m), but for the strings.
Out(m) == [of |-> m, network |-> Truthy(m, "network"), isolated |-> Truthy(m, "isolated")]

\* Fault for HeldIsFlagsOfOne: the static buffers are filled as the fields are
\* found, before the manifest is accepted.
TextAfterEager(m) == Strings(m)

\* The static buffers after read_manifest(m).
TextAfter(m) == IF Readable(m) THEN Strings(m) ELSE text

ReadAfter(m) == IF Readable(m) THEN m ELSE read

\* A package that states no extension may have any.
SameKind(path, package) ==
    ExtensionOf[package] # "" => ExtensionOf[path] = ExtensionOf[package]

\* Whether validate_package() returns true, once it has read m.
Validates(path, m) ==
    /\ Readable(m)
    /\ SameKind(path, Value(m, "package"))
    /\ ~(IsNative(path) /\ RuntimeFrom(Value(m, "runtime")) = "WebSandbox")

-----------------------------------------------------------------------------
Fresh ==
    /\ entries = <<>>
    /\ text = NoStrings
    /\ held = NoManifest
    /\ parsed = Nothing /\ read = Nothing /\ accepted = Nothing

Init == disk \in Disks /\ Fresh

\* init() comes first in parse(): the entries of an earlier manifest go.
Parse(m) ==
    /\ entries' = Parsed(m)
    /\ parsed' = m
    /\ UNCHANGED <<disk, text, held, read, accepted>>

\* The caller keeps the Manifest, or another caller's is kept.
ReadManifest(m) ==
    /\ text' = TextAfter(m)
    /\ read' = ReadAfter(m)
    /\ held' \in IF Readable(m) THEN {held, Out(m)} ELSE {held}
    /\ UNCHANGED <<disk, entries, parsed, accepted>>

\* The manifest is read on the way, unless an early return comes before, into
\* a Manifest that nobody keeps.
ValidatePackage(path, m) ==
    /\ IsSupported(path)
    /\ m # <<>>
    /\ text' = TextAfter(m)
    /\ read' = ReadAfter(m)
    /\ accepted' = IF Validates(path, m) THEN <<path, m>> ELSE accepted
    /\ UNCHANGED <<disk, entries, held, parsed>>

Next ==
    \E m \in disk :
        \/ Parse(m)
        \/ ReadManifest(m)
        \/ \E path \in Paths : ValidatePackage(path, m)

Spec == Init /\ [][Next]_vars

-----------------------------------------------------------------------------
(* Properties *)

\* The tables and the histories have their types; g_count stays in g_entries.
TypeOK ==
    /\ Len(entries) <= MaxEntries
    /\ \A i \in 1..Len(entries) : entries[i].name \in Keys
    /\ text \in [Fields -> Values \cup {Empty}]
    /\ {parsed, read, held.of} \subseteq disk \cup {Nothing}
    /\ accepted # Nothing => accepted \in Paths \X disk

\* A manifest both readers can take whole: no blank before an '=', and no
\* more entries or lines than parse() keeps.
Plain(m) ==
    /\ \A i \in 1..Len(m) : m[i].key \in Keys => ~m[i].spaced
    /\ Cardinality({i \in 1..Len(m) : Listed(m[i])}) <= MaxEntries
    /\ Len(m) <= MaxText

AcceptedAsListed ==
    /\ \A e \in Found(entries, "package") :
         ExtensionOf[Value(parsed, "package")] # "" =>
             e.supported /\ e.native = IsNative(accepted[1])
    /\ \A e \in Found(entries, "runtime") :
         IsNative(accepted[1]) => e.runtime # "WebSandbox"

\* The two readers of a plain manifest agree: a field is found by the one
\* when it is by the other, and the classes find() returns are those of the
\* value read_manifest() takes, duplicates and empty values included.
\* A package that was accepted under a path is what these entries say: of the
\* path's kind, and not a native package for the web sandbox.
AgreesWithParser ==
    Plain(parsed) =>
        /\ \A k \in Fields : Value(parsed, k) # Empty <=> Found(entries, k) # {}
        /\ \A k \in Fields : \A e \in Found(entries, k) :
             e = Entry([key |-> k, spaced |-> FALSE, value |-> Value(parsed, k)])
        /\ accepted # Nothing /\ accepted[2] = parsed => AcceptedAsListed

\* What the Manifest a caller has kept shows: the strings of one manifest, the
\* one accepted last by anybody, validations that then failed included, beside
\* the flags of its own.  So it is whole until another manifest is accepted; a
\* refused read never disturbs it, however far it came.
HeldIsFlagsOfOne ==
    held # NoManifest =>
        /\ text = Strings(read)
        /\ held = Out(held.of)
=============================================================================
