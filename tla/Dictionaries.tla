---------------------------- MODULE Dictionaries ----------------------------
(***************************************************************************)
(* The walk over a drawing's dictionaries in src/acadrust_model1.rs:       *)
(* dictionary_tree() starts at the root and then at every extension        *)
(* dictionary of a table entry or a layout, walk_dictionary() names what   *)
(* it meets by the path of keys that led there.  The recursion is a stack  *)
(* of the dictionaries still open, each with the entries still to go.      *)
(*                                                                         *)
(* A text is a sequence of pieces out of Alphabet, which lists them in the *)
(* order of their bytes.                                                   *)
(***************************************************************************)
EXTENDS Integers, Sequences, FiniteSets, Listed

CONSTANTS
  Docs,       \* the documents the reader may hand over
  Alphabet    \* the pieces texts are made of, in the order of their bytes

VARIABLES
  doc,        \* the document: objects by handle, tables, extended data
  owned,      \* where a walk is still to start: a path and a handle
  calls,      \* the dictionaries open, outermost first
  seen,       \* the dictionaries met
  tree        \* what the walks found

walkVars == <<owned, calls, seen, tree>>

-----------------------------------------------------------------------------
(* What is assumed. *)

Pieces == {Alphabet[n] : n \in DOMAIN Alphabet}

IsText(text) == text \in Seq(Pieces)

\* The variables of a header that are kept, one of each way to write one.
HeaderNames == <<"$ANGBASE", "$AUNITS", "$BLIPMODE", "$CAMERADISPLAY", "$CECOLOR", "$CLAYER", "$EXTMAX", "$LIMMAX">>

TableKinds == {"layer", "linetype", "textstyle", "dimstyle", "block_record", "appid", "view", "vport", "ucs", "vx"}

\* What paths and keys are put together with, beside what a document holds.
ASSUME AlphabetAssumption ==
  /\ IsSequence(Alphabet)
  /\ \A m, n \in DOMAIN Alphabet : Alphabet[m] = Alphabet[n] => m = n
  /\ {"/", "|", "entity", "table", "layout", "dictionary", "xrecord"} \subseteq Pieces
  /\ TableKinds \subseteq Pieces
  /\ {HeaderNames[n] : n \in DOMAIN HeaderNames} \subseteq Pieces

LayoutsOf(d) == {h \in DOMAIN d.objects : d.objects[h].class = "LAYOUT"}

\* The tables whose entries have records.
TablesOf(d) ==
  [layer |-> d.layers, linetype |-> d.linetypes, textstyle |-> d.textstyles, dimstyle |-> d.dimstyles,
   block_record |-> d.blocks]

\* A node that owns something is an entry of its table, or an object, and is
\* known by no more than its name or its handle.
IsNode(d, node) ==
  CASE node.of = "table" ->
         /\ node = [of |-> "table", kind |-> node.kind, name |-> node.name]
         /\ node.kind \in TableKinds /\ IsText(node.name)
         /\ node.kind \in DOMAIN TablesOf(d) =>
              \E n \in DOMAIN TablesOf(d)[node.kind] : TablesOf(d)[node.kind][n].name = node.name
    [] node.of = "layout" ->
         /\ node = [of |-> "layout", name |-> node.name]
         /\ \E h \in LayoutsOf(d) : d.objects[h].name = node.name
    [] node.of = "object" ->
         /\ node = [of |-> "object", handle |-> node.handle]
         /\ node.handle \in DOMAIN d.objects \ LayoutsOf(d)
    [] OTHER -> node.of = "entity"

\* The lists of a document come in an order, its texts are texts, and what it
\* says of a node it says of one it holds.
IsDocument(d) ==
  /\ Lists(d, {"layers", "linetypes", "textstyles", "dimstyles", "blocks", "extensions", "entities", "xdata"})
  /\ \A kind \in DOMAIN TablesOf(d) : \A n \in DOMAIN TablesOf(d)[kind] : IsText(TablesOf(d)[kind][n].name)
  /\ IsFiniteSet(DOMAIN d.objects)
  /\ \A h \in LayoutsOf(d) : IsText(d.objects[h].name)
  /\ \A h \in DOMAIN d.objects : d.objects[h].class \in {"DICTIONARY", "ACDBDICTIONARYWDFLT"} =>
       /\ IsSequence(d.objects[h].entries)
       /\ \A n \in DOMAIN d.objects[h].entries : IsText(d.objects[h].entries[n].key)
  /\ \A n \in DOMAIN d.extensions : IsNode(d, d.extensions[n].node)
  /\ \A n \in DOMAIN d.xdata : IsNode(d, d.xdata[n].node) /\ IsText(d.xdata[n].appid)
  /\ \A n \in DOMAIN d.entities :
       /\ IsText(d.entities[n].handle) /\ IsSequence(d.entities[n].xdata)
       /\ \A i \in DOMAIN d.entities[n].xdata : IsText(d.entities[n].xdata[i].appid)

ASSUME DocsAssumption == \A d \in Docs : IsDocument(d)

-----------------------------------------------------------------------------
(* Texts. *)

Rank(piece) == CHOOSE n \in DOMAIN Alphabet : Alphabet[n] = piece

\* The order of two texts' bytes: one is where they part, or where one ends.
Before(a, b) ==
  \E n \in 0..Len(a) :
    /\ n < Len(b)
    /\ \A i \in 1..n : a[i] = b[i]
    /\ n = Len(a) \/ Rank(a[n + 1]) < Rank(b[n + 1])

\* How many are not after the i-th, itself included, those of one text in the
\* order they have.
TextPlace(texts, i) ==
  Cardinality({j \in DOMAIN texts : Before(texts[j], texts[i]) \/ (texts[j] = texts[i] /\ j <= i)})

CameFrom(texts, n) == CHOOSE i \in DOMAIN texts : TextPlace(texts, i) = n

\* A stable sort of a list by the texts beside it.
InTextOrder(s, texts) == [n \in DOMAIN s |-> s[CameFrom(texts, n)]]

\* Mutant: only the last key counts.
ChildByKey(path, key) == key

Child(path, key) == IF path = <<>> THEN key ELSE path \o <<"/">> \o key

Under(kind, path) == <<kind, "/">> \o path

-----------------------------------------------------------------------------
(* What a document holds. *)

IsDictionary(h) == h \in DOMAIN doc.objects /\ doc.objects[h].class \in {"DICTIONARY", "ACDBDICTIONARYWDFLT"}

IsXRecord(h) == h \in DOMAIN doc.objects /\ doc.objects[h].class = "XRECORD"

Entries(h) == doc.objects[h].entries

\* An entry whose handle names no object is left out.
Resolving(h) == {n \in DOMAIN Entries(h) : Entries(h)[n].handle \in DOMAIN doc.objects}

\* The entries are gone through by key, those of one key as they are stored.
Precedes(h, m, n) ==
  \/ Before(Entries(h)[m].key, Entries(h)[n].key)
  \/ Entries(h)[m].key = Entries(h)[n].key /\ m < n

NoPath == <<"">>

\* The path an extension dictionary is named by: the entries of a table and
\* the layouts have one.
OwnerPath(node) ==
  CASE node.of = "layout" -> Under("layout", node.name)
    [] node.of = "table" /\ node.kind # "vx" -> <<"table", "/", node.kind, "/">> \o node.name
    [] OTHER -> NoPath

ExtensionDictionaries ==
  [n \in DOMAIN doc.extensions |->
     [path |-> OwnerPath(doc.extensions[n].node), handle |-> doc.extensions[n].handle]]

-----------------------------------------------------------------------------

NoTree == [dictionaries |-> <<>>, xrecords |-> <<>>, owners |-> [h \in {} |-> <<>>]]

Root == [path |-> <<>>, handle |-> doc.root]

Begun ==
  /\ owned = <<Root>> \o ExtensionDictionaries
  /\ calls = <<>> /\ seen = {} /\ tree = NoTree

WalkInit == doc \in Docs /\ Begun

Owns(owners, h, text) == [g \in DOMAIN owners \cup {h} |-> IF g = h THEN text ELSE owners[g]]

\* A dictionary is written down when it is first met, and never again.
WriteDown(h, path, stack) ==
  /\ calls' = Append(stack, [handle |-> h, path |-> path, rest |-> Resolving(h)])
  /\ seen' = seen \cup {h}
  /\ tree' = [tree EXCEPT !.owners = Owns(@, h, Under("dictionary", path)),
                          !.dictionaries = Append(@, [handle |-> h, path |-> path])]

\* Mutant: a dictionary that was met before is met again.
MeetsAgain(h) == IsDictionary(h)

Meets(h) == IsDictionary(h) /\ h \notin seen

StartWalk ==
  /\ calls = <<>> /\ owned # <<>>
  /\ owned' = Tail(owned)
  /\ IF Head(owned).path # NoPath /\ Meets(Head(owned).handle)
     THEN WriteDown(Head(owned).handle, Head(owned).path, <<>>)
     ELSE UNCHANGED <<calls, seen, tree>>
  /\ UNCHANGED doc

Innermost == calls[Len(calls)]

\* Whose turn it is among the entries that are left.
InTurn == {n \in Innermost.rest : \A m \in Innermost.rest : ~Precedes(Innermost.handle, m, n)}

Target(n) == Entries(Innermost.handle)[n].handle

PathOf(n) == Child(Innermost.path, Entries(Innermost.handle)[n].key)

\* The stack once an entry has been taken off.
Past(n) == [calls EXCEPT ![Len(calls)] = [handle |-> Innermost.handle, path |-> Innermost.path, rest |-> Innermost.rest \ {n}]]

\* Mutant: an xrecord is written down where it is first met.
ListXRecordOnce ==
  /\ calls # <<>>
  /\ \E n \in InTurn :
       /\ IsXRecord(Target(n))
       /\ tree' = [tree EXCEPT !.owners = Owns(@, Target(n), Under("xrecord", PathOf(n))),
                               !.xrecords = IF Target(n) \in DOMAIN tree.owners THEN @
                                            ELSE Append(@, [handle |-> Target(n), path |-> PathOf(n)])]
       /\ calls' = Past(n)
  /\ UNCHANGED <<doc, owned, seen>>

\* An xrecord is written down wherever it is met, and owned by the last place.
ListXRecord ==
  /\ calls # <<>>
  /\ \E n \in InTurn :
       /\ IsXRecord(Target(n))
       /\ tree' = [tree EXCEPT !.owners = Owns(@, Target(n), Under("xrecord", PathOf(n))),
                               !.xrecords = Append(@, [handle |-> Target(n), path |-> PathOf(n)])]
       /\ calls' = Past(n)
  /\ UNCHANGED <<doc, owned, seen>>

EnterDictionary ==
  /\ calls # <<>>
  /\ \E n \in InTurn : Meets(Target(n)) /\ WriteDown(Target(n), PathOf(n), Past(n))
  /\ UNCHANGED <<doc, owned>>

\* Any other object, and a dictionary that was met before, is an entry only.
PassOver ==
  /\ calls # <<>>
  /\ \E n \in InTurn : ~IsXRecord(Target(n)) /\ ~Meets(Target(n)) /\ calls' = Past(n)
  /\ UNCHANGED <<doc, owned, seen, tree>>

Return ==
  /\ calls # <<>> /\ Innermost.rest = {}
  /\ calls' = SubSeq(calls, 1, Len(calls) - 1)
  /\ UNCHANGED <<doc, owned, seen, tree>>

WalkNext == StartWalk \/ ListXRecord \/ EnterDictionary \/ PassOver \/ Return

WalkSpec == WalkInit /\ [][WalkNext]_<<doc, walkVars>>

TreeIsWalked == calls = <<>> /\ owned = <<>>

-----------------------------------------------------------------------------
(* What the walk has to find, said without walking. *)

Starts ==
  {Root} \cup
  {x \in {ExtensionDictionaries[n] : n \in DOMAIN ExtensionDictionaries} : x.path # NoPath}

\* A set of dictionaries that nothing leads out of.
ClosedUnderEntries(S) ==
  /\ \A x \in Starts : IsDictionary(x.handle) => x.handle \in S
  /\ \A h \in S : \A n \in DOMAIN Entries(h) :
       IsDictionary(Entries(h)[n].handle) => Entries(h)[n].handle \in S

Met == {tree.dictionaries[n].handle : n \in DOMAIN tree.dictionaries}

\* An entry of a dictionary that was written down gives the object that path.
Leads(item) ==
  \E d \in DOMAIN tree.dictionaries :
    \E n \in DOMAIN Entries(tree.dictionaries[d].handle) :
      /\ Entries(tree.dictionaries[d].handle)[n].handle = item.handle
      /\ item.path = Child(tree.dictionaries[d].path, Entries(tree.dictionaries[d].handle)[n].key)

\* Each is written down once, and under a path that leads to it, as is every
\* xrecord.
PathsLeadThere ==
  /\ \A m, n \in DOMAIN tree.dictionaries :
       tree.dictionaries[m].handle = tree.dictionaries[n].handle => m = n
  /\ \A n \in DOMAIN tree.dictionaries : tree.dictionaries[n] \in Starts \/ Leads(tree.dictionaries[n])
  /\ \A n \in DOMAIN tree.xrecords : Leads(tree.xrecords[n])

\* The least set of dictionaries that holds the starts and whatever its own
\* entries name, with every xrecord one of them names.
NothingIsMissed ==
  /\ ClosedUnderEntries(Met)
  /\ \A S \in SUBSET Met : ClosedUnderEntries(S) => S = Met
  /\ \A h \in Met : \A n \in DOMAIN Entries(h) :
       IsXRecord(Entries(h)[n].handle) =>
         \E x \in DOMAIN tree.xrecords : tree.xrecords[x].handle = Entries(h)[n].handle

\* However the dictionaries refer to each other, themselves and the start
\* included, the tree is what can be reached and no more, each dictionary once
\* and everything under a path of keys that leads to it.
TreeIsWhatIsReachable == PathsLeadThere /\ (TreeIsWalked => NothingIsMissed)

-----------------------------------------------------------------------------
(* What keeps the paths apart. *)

\* A name with no separator in it.
PlainName(text) == text # <<>> /\ \A n \in DOMAIN text : text[n] \notin {"/", "|"}

Apart(names) == \A m, n \in DOMAIN names : PlainName(names[n]) /\ (names[m] = names[n] => m = n)

\* No key twice in a dictionary, and none that the paths of owners start with.
PlainKeys ==
  /\ \A h \in DOMAIN doc.objects :
       IsDictionary(h) => Apart([n \in DOMAIN Entries(h) |-> Entries(h)[n].key])
  /\ IsDictionary(doc.root) =>
       \A n \in DOMAIN Entries(doc.root) : Entries(doc.root)[n].key \notin {<<"table">>, <<"layout">>}

PlainOwner(node) == node.of \in {"entity", "object"} \/ PlainName(node.name)

\* No two extension dictionaries of one owner.
PlainStarts ==
  \A m, n \in DOMAIN doc.extensions :
    /\ PlainOwner(doc.extensions[n].node)
    /\ doc.extensions[m].node = doc.extensions[n].node => m = n \/ doc.extensions[n].node.of = "entity"
=============================================================================
