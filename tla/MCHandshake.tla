--------------------------- MODULE MCHandshake ---------------------------
(* Small instances of HandshakeProperties. *)
EXTENDS HandshakeProperties

All == {"pipe", "msq", "shm", "sck"}

\* Which of three pids share a bucket: none, two, or all.
Shares == {[c \in Children |-> c], [c \in Children |-> 0]}
            \cup {[c \in Children |-> IF c = d THEN 1 ELSE 0] : d \in Children}

Pipes == {"pipe"}
Shared == {[c \in Children |-> 0]}
=============================================================================
