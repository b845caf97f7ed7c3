------------------------------ MODULE MCCodeGen -------------------------------
(* Every line of up to six tokens over two words and the three marks; and  *)
(* files of two lines with declarations of up to three parameters, among   *)
(* them empty lines, ones with a storage class, a pointer, a parameter of  *)
(* three words or of one, a missing comma, and no declaration at all.      *)
EXTENDS CodeGen

MCWord == {"int", "long", "string", "static", "add", "a", "b"}

Short == UNION {[1..n -> {"long", "add", "(", ")", ","}] : n \in 0..6}

MCLines ==
  {<<>>,
   <<"int", "add", "(", ")", ";">>,
   <<"int", "add", "(", "int", "a", ")">>,
   <<"static", "string", "add", "(", "int", "a", ",", "long", "b", ")">>,
   <<"int", "add", "(", "int", "a", ",", "int", "b", ",", "int", "a", ")", ";">>,
   <<"int", "add", "(", "int", "*", "a", ",", "int", "b", ")">>,
   <<"long", "long", "add", "(", "long", "long", "a", ",", "int", "b", ")">>,
   <<"int", "add", "(", "int", ",", "int", "b", ")", "(", "a", ")">>,
   <<"int", "add", "(", "int", "a", "int", "b", ")">>,
   <<"int", "add">>}

MCInput == {<<line>> : line \in Short} \union (MCLines \X MCLines)
=============================================================================
