----------------------------- MODULE DeviceTree -----------------------------
(***************************************************************************)
(* fdt.c: lookups in a flattened device tree.  The structure block is a    *)
(* sequence of tokens, an offset an index in it; a node name is its part   *)
(* before the unit address, the value of a property its sequence of cells. *)
(* The readers walk the tokens with a depth or a path they keep up         *)
(* themselves; what they find is compared with a definition by nesting,    *)
(* over every block that can be written with a few tokens.                 *)
(***************************************************************************)
EXTENDS Integers, FiniteSets, FiniteSetsExt, SequencesExt

CONSTANTS
  Names,     \* names of nodes
  Reserved,  \* one of them: "reserved-memory"
  Props,     \* names of properties
  Reg,       \* one of them: "reg"
  Values,    \* values of properties: sequences of cells
  CellSize,  \* how many values a cell has
  MaxDepth,  \* nodes that may be nested: saved_len[64]
  Starts,    \* blocks to go on from, at least the empty one
  Length     \* bound: tokens written behind a start

DeviceTreeAssumption ==
  /\ Reserved \in Names /\ Reg \in Props /\ MaxDepth \in Nat /\ Length \in Nat
  /\ Values \subseteq Seq(0 .. CellSize - 1) /\ <<>> \in Starts

Root == "/"
Begin(n) == [kind |-> "BEGIN", name |-> n]

VARIABLES
  blob,   \* a structure block
  left    \* tokens that may still be written
treeVars == <<blob, left>>

-----------------------------------------------------------------------------
(* A reader is a fold over the tokens from one on, until it is done.         *)
Scan(Step(_, _), from, start) ==
  FoldLeft(LAMBDA w, i : IF w.done THEN w ELSE Step(w, i), start,
           [n \in 1 .. Len(blob) - from + 1 |-> from + n - 1])

(* fdt_path_offset: cur is the path of the node it is in, and for each open  *)
(* node the length cur had before it is saved.                               *)
Missing == 0
(* Faulty variant: the path is not cut back.                                 *)
LeaveNodeNot(w) == [w EXCEPT !.saved = Front(@)]
LeaveNode(w) ==
  IF w.saved = <<>> THEN w
  ELSE [w EXCEPT !.cur = SubSeq(@, 1, Last(w.saved)), !.saved = Front(@)]
EnterNode(w, i, path) ==
  LET cur == IF w.saved = <<>> /\ blob[i].name = Root THEN <<>>
             ELSE Append(w.cur, blob[i].name)
  IN  IF Len(w.saved) >= MaxDepth THEN [w EXCEPT !.done = TRUE]
      ELSE IF cur = path THEN [w EXCEPT !.done = TRUE, !.at = i]
      ELSE [w EXCEPT !.cur = cur, !.saved = Append(@, Len(w.cur))]
PathOffset(path) ==
  LET Step(w, i) == CASE blob[i].kind = "BEGIN" -> EnterNode(w, i, path)
                      [] blob[i].kind = "END_NODE" -> LeaveNode(w)
                      [] blob[i].kind = "END" -> [w EXCEPT !.done = TRUE]
                      [] OTHER -> w
  IN  Scan(Step, 1, [cur |-> <<>>, saved |-> <<>>, at |-> Missing, done |-> FALSE]).at

(* fdt_getprop: a property at depth 0 behind the name of the node.           *)
(* Faulty variant: at any depth.                                             *)
IsWantedAnyDepth(w, i, name) == blob[i].name = name
IsWanted(w, i, name) == w.depth = 0 /\ blob[i].name = name
GetProp(node, name) ==
  LET Step(w, i) ==
        CASE blob[i].kind = "PROP" ->
               IF IsWanted(w, i, name) THEN [w EXCEPT !.done = TRUE, !.at = i] ELSE w
          [] blob[i].kind = "BEGIN" -> [w EXCEPT !.depth = @ + 1]
          [] blob[i].kind = "END_NODE" ->
               IF w.depth = 0 THEN [w EXCEPT !.done = TRUE] ELSE [w EXCEPT !.depth = @ - 1]
          [] blob[i].kind = "END" -> [w EXCEPT !.done = TRUE]
          [] OTHER -> w
  IN  Scan(Step, node + 1, [depth |-> 0, at |-> Missing, done |-> FALSE]).at

-----------------------------------------------------------------------------
(* reg_entry_count and reg_read_addr_size: pairs of two cells when they come *)
(* out even, of one cell otherwise.                                          *)
Stride(cells) == IF Len(cells) % 4 = 0 THEN 4 ELSE 2
EntryCount(cells) == IF Len(cells) % 2 = 0 THEN Len(cells) \div Stride(cells) ELSE 0
Number(cells) == FoldLeft(LAMBDA n, c : n * CellSize + c, 0, cells)
ReadEntry(cells, k) ==
  LET s == Stride(cells) IN
  [base |-> Number(SubSeq(cells, k * s + 1, k * s + s \div 2)),
   size |-> Number(SubSeq(cells, k * s + s \div 2 + 1, k * s + s))]

Cells(node) == LET i == GetProp(node, Reg)
               IN  IF i = Missing THEN <<>> ELSE blob[i].value

(* fdt_get_reserved_memory_region: the entries of the nodes directly below   *)
(* "/reserved-memory" are counted through.  An entry of size zero is         *)
(* counted, and refused when it is asked for.                                *)
Nothing == [base |-> 0, size |-> 0]
CountThrough(w, i, entry) ==
  LET cells == Cells(i)
      k == entry - w.seen
      range == ReadEntry(cells, k)
  IN  IF k < EntryCount(cells)
      THEN [w EXCEPT !.done = TRUE, !.range = IF range.size = 0 THEN Nothing ELSE range]
      ELSE [w EXCEPT !.seen = @ + EntryCount(cells), !.depth = 1]
ReservedRegion(entry) ==
  LET Step(w, i) ==
        CASE blob[i].kind = "BEGIN" ->
               IF w.depth = 0 THEN CountThrough(w, i, entry) ELSE [w EXCEPT !.depth = @ + 1]
          [] blob[i].kind = "END_NODE" ->
               IF w.depth = 0 THEN [w EXCEPT !.done = TRUE] ELSE [w EXCEPT !.depth = @ - 1]
          [] blob[i].kind = "END" -> [w EXCEPT !.done = TRUE]
          [] OTHER -> w
      parent == PathOffset(<<Reserved>>)
  IN  IF parent = Missing THEN Nothing
      ELSE Scan(Step, parent + 1,
                [depth |-> 0, seen |-> 0, range |-> Nothing, done |-> FALSE]).range

-----------------------------------------------------------------------------
(* Blocks are written token by token: a root, nodes in it, properties before *)
(* and behind other nodes, padding.  What is open can still be closed.       *)
Count(k, i, j) == Cardinality({n \in i .. j : blob[n].kind = k})
OpenAt(i) == {j \in 1 .. i : /\ blob[j].kind = "BEGIN"
                             /\ \A k \in j .. i : Count("BEGIN", j, k) > Count("END_NODE", j, k)}
Closed == blob # <<>> /\ OpenAt(Len(blob)) = {}
Write(t) ==
  /\ left > 0 /\ left' = left - 1 /\ (Closed => t.kind = "END")
  /\ blob = <<>> => t = Begin(Root)
  /\ t.kind = "END" => Closed /\ Last(blob).kind # "END"
  /\ blob' = Append(blob, t) /\ Cardinality(OpenAt(Len(blob)))' <= left'

Init == blob \in Starts /\ left = Length
Tokens == {Begin(n) : n \in Names \cup {Root}}
            \cup [kind : {"PROP"}, name : {Reg}, value : Values]
            \cup [kind : {"PROP"}, name : Props \ {Reg}, value : {<<>>}]
            \cup [kind : {"END_NODE", "NOP", "END"}]
Next == \E t \in Tokens : Write(t) /\ (t.kind = "BEGIN" /\ t.name = Root => blob = <<>>)

-----------------------------------------------------------------------------
(* What a tree is: a node's path are the names of the nodes around it, from  *)
(* the outermost on but for the root, and its own; a property belongs to the *)
(* node that was opened last.                                                *)
PathAt(i) == LET around == SetToSortSeq(OpenAt(i) \ {1}, <)
             IN  [n \in DOMAIN around |-> blob[around[n]].name]
Nodes == {i \in DOMAIN blob : blob[i].kind = "BEGIN"}
OwnProps(node) == {i \in DOMAIN blob : blob[i].kind = "PROP" /\ Max(OpenAt(i)) = node}
First(is) == IF is = {} THEN Missing ELSE Min(is)
Children(node) == {i \in Nodes : node \in OpenAt(i) /\ Len(PathAt(i)) = Len(PathAt(node)) + 1}

NodeAt(path) == First({i \in Nodes : PathAt(i) = path})
PropOf(node, name) == First({i \in OwnProps(node) : blob[i].name = name})
RangesOf(node) ==
  LET i == PropOf(node, Reg)
      cells == IF i = Missing THEN <<>> ELSE blob[i].value
  IN  [k \in 1 .. EntryCount(cells) |-> ReadEntry(cells, k - 1)]
ReservedRanges ==
  LET parent == NodeAt(<<Reserved>>)
      children == IF parent = Missing THEN <<>> ELSE SetToSortSeq(Children(parent), <)
  IN  FoldLeft(LAMBDA rs, c : rs \o RangesOf(c), <<>>, children)

(* The walks of fdt.c find in every tree what nesting says: the first node  *)
(* with a path, the first property a node has of its own, also behind its    *)
(* children, and the reserved ranges one by one, over all children, until    *)
(* they are used up; only an empty range is not returned.                    *)
Paths == {<<>>} \cup {<<n>> : n \in Names} \cup {<<m, n>> : m, n \in Names}
LookupsAgree == Closed =>
  /\ \A p \in Paths : PathOffset(p) = NodeAt(p)
  /\ \A i \in Nodes, n \in Props : GetProp(i, n) = PropOf(i, n)
  /\ \A k \in 0 .. Len(ReservedRanges) :
       ReservedRegion(k) =
         IF k < Len(ReservedRanges) /\ ReservedRanges[k + 1].size # 0
         THEN ReservedRanges[k + 1] ELSE Nothing
=============================================================================
