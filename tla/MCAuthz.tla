------------------------------ MODULE MCAuthz -------------------------------
(* An instance of Authz for TLC. *)
EXTENDS Authz

CONSTANTS u1, u2

Role(u, permissions) == [userIds |-> {u}, permissions |-> permissions]

\* Access that moves from one user to the other, and a role that may only read.
MCContents == {{Role(u1, {"create"})}, {Role(u2, {"create"}), Role(u1, {"read"})}}

Text(method) == [method |-> method, from |-> "text", ok |-> TRUE]
Default == [disabled |-> FALSE, public |-> Text("HMAC"), private |-> Text("HMAC")]

\* docker-compose.yml's configuration, and one of each kind: RSA keys, keys in
\* files, mixed methods, keys that Open refuses, and no authorization at all.
MCConfigs ==
    {Default, [Default EXCEPT !.disabled = TRUE],
     [Default EXCEPT !.public = Text("RSA"), !.private = Text("RSA")],
     [Default EXCEPT !.private = Text("RSA")],
     [Default EXCEPT !.public.from = "none"],
     [Default EXCEPT !.public.from = "file", !.private.from = "file"],
     [Default EXCEPT !.private = [method |-> "RSA", from |-> "file", ok |-> FALSE]]}
=============================================================================
