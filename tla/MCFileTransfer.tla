--------------------------- MODULE MCFileTransfer ---------------------------
(* Small instances of FileTransfer: three Sons, two transfers that meet in  *)
(* one of them, or go both ways between two.                                *)
EXTENDS FileTransfer, TLC
CONSTANTS a, b, c, s1, s2
Way(f, t) == [from |-> f, to |-> t]
MCRoutes ==
  { s1 :> Way(a, b) @@ s2 :> Way(c, b),    \* both into one folder
    s1 :> Way(a, b) @@ s2 :> Way(b, c),    \* one into, one out of it
    s1 :> Way(a, b) @@ s2 :> Way(b, a) }
MCDisturbances ==
  { {<<"end", a>>, <<"end", b>>}, {<<"end", b>>, <<"hang", b>>},
    {<<"child", b>>, <<"kill", b>>}, {<<"hashFails", a>>}, {<<"hashFails", b>>} }
MCSize == a :> 2 @@ b :> 1 @@ c :> 0
=============================================================================
