--------------------------- MODULE MCChunkWindows ---------------------------
(***************************************************************************)
(* ChunkWindows for TLC: every short text of the four classes, longer ones *)
(* of characters and lines, with and without declarations.                 *)
(***************************************************************************)
EXTENDS ChunkWindows

Texts == [1..5 -> Character] \cup [1..8 -> {"x", "n"}]
Solid(t, s) == t[s[1]] = "x" /\ t[s[2]] = "x"
Declarations == {<<>>, <<<<2, 4>>>>, <<<<1, 5>>>>, <<<<1, 2>>, <<4, 5>>>>, <<<<6, 8>>>>}
Declared(t) ==
  {d \in Declarations :
     \A k \in DOMAIN d : d[k][2] <= Len(t) /\ Solid(t, d[k])}
MCDocuments ==
  UNION {{[kind |-> "code", text |-> t, declared |-> d] : d \in Declared(t)}
           \cup {[kind |-> "doc", text |-> t, declared |-> <<>>]} : t \in Texts}

Setting(context, tokens, overlap, depth, policy) ==
  [context |-> context, margin |-> 1, tokens |-> tokens, overlap |-> overlap,
   depth |-> depth, policy |-> policy]
MCSettings ==
  {Setting(None, None, 1, 1, "split"), Setting(1, None, 3, 2, "split"),
   Setting(None, 2, 3, 2, "split"), Setting(None, 1, 1, 1, "skip")}
=============================================================================
