----------------------------- MODULE AuthMessages -----------------------------
(***************************************************************************)
(* The answers of an auth handler as AuthHandlerGRPCServer puts them on the *)
(* wire: the conversions at the end of plugin/grpc_auth_server.go and the   *)
(* result of Login.                                                        *)
(*                                                                         *)
(* Texts are left out. Of a time it matters whether it is Go's zero time.   *)
(* On the wire a time t is a number of seconds since 1970, written <<t>>;   *)
(* the number 0, which stands for a time that is not known, is <<>>.       *)
(***************************************************************************)
CONSTANTS NoTime,   \* time.Time{}
          Nil

NoSeconds == <<>>

\* time.Time.Unix: any time has a number of seconds, the zero time one in the
\* year 1.
Unix(t) == <<t>>

SafeUnix(t) == IF t = NoTime THEN NoSeconds ELSE Unix(t)

\* Claims are converted without the guard.
ClaimsToProto(c) ==
    IF c = Nil THEN Nil
    ELSE [issuedAt |-> Unix(c.issuedAt), expiresAt |-> Unix(c.expiresAt)]

StatusToProto(s) ==
    [authenticated |-> s.authenticated, claims |-> ClaimsToProto(s.claims),
     expiresAt |-> SafeUnix(s.expiresAt), lastRefresh |-> SafeUnix(s.lastRefresh)]

TokenResponseToProto(t) ==
    [expiresAt |-> SafeUnix(t.expiresAt), cachedAt |-> SafeUnix(t.cachedAt)]

\* The last message of a Login whose result is not nil; not guarded either.
LoginResultToProto(r) ==
    [claims |-> ClaimsToProto(r.claims), expiresAt |-> Unix(r.expiresAt)]
=============================================================================
