--------------------------- MODULE MCModelLoading ---------------------------
(***************************************************************************)
(* ModelLoading with the two networks of the plugin: all loads on the      *)
(* message thread; the second network automated by the host on its audio   *)
(* thread; and one network loaded by both threads.                         *)
(***************************************************************************)
EXTENDS ModelLoading

MCSessions == { {<<"message", 1>>, <<"message", 2>>},
                {<<"message", 1>>, <<"audio", 2>>},
                {<<"message", 1>>, <<"audio", 1>>} }
=============================================================================
