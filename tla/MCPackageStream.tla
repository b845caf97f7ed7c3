--------------------------- MODULE MCPackageStream ---------------------------
(* A short and a long package, of three and four bytes.  A write cache of  *)
(* six is filled exactly by two short ones; behind a short one a long one  *)
(* finds room for its header only.  A block of three bytes cuts every long *)
(* package, and the read cache holds a block behind an incomplete package. *)
EXTENDS PackageStream

CONSTANTS ping, add

MCMessage == {ping, add}
MCBodyLength == (ping :> 1) @@ (add :> 2)

(* Packages of four bytes, sent whole in blocks of four: a write cache of  *)
(* seven holds one and refuses the body of the next, and is never filled   *)
(* to its last byte.                                                       *)
MCEqualLength == (ping :> 2) @@ (add :> 2)
=============================================================================
