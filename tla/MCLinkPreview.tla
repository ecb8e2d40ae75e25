---------------------------- MODULE MCLinkPreview ----------------------------
(* LinkPreview with one URL on each of two hosts; the keys of the cache tell  *)
(* them apart.                                                                *)
EXTENDS LinkPreview

CONSTANTS u1, u2, h1, h2

MCHostOf == [u \in Urls |-> IF u = u1 THEN h1 ELSE h2]
MCKeyOf == [u \in Urls |-> u]
==============================================================================
