---------------------------- MODULE MCJwksCache ----------------------------
(* One administrator at a time, and one request of the relying party. *)
EXTENDS JwksCache
=============================================================================
