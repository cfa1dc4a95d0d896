--------------------------- MODULE MCSessionStore ---------------------------
(* Instances of SessionStore for TLC.                                      *)
EXTENDS SessionStore, TLC

CONSTANTS p1, p2, a, b, i1, i2, j1, j2, m1, m2, bad, old, new, o1

\* The requests a and b are handled by one proxy and by another.
OnProc == a :> p1 @@ b :> p2

\* The opening o1 has the automatic session i2 in the project j1.
Auto == <<j1, o1>> :> i2 @@ <<j2, o1>> :> i1

Named == j1 :> old @@ j2 :> new

Left(h, run) == [project |-> j1, title |-> old, history |-> h, runtime |-> run]

\* Nothing, or a session an older runtime has left with a process.
LeftBehind == {NoRecords, [NoRecords EXCEPT ![i1] = Left(<<m1>>, "dead")]}

\* Every kind of operation, with a body that is found invalid where one can be.
Asked ==
    { Op("create", i1, j2, None, <<>>),
      Resolve(None, j1, o1, new),
      Resolve(i1, j1, o1, new),
      Op("get", i1, None, None, <<>>),
      Op("list", None, j1, None, <<>>),
      Op("rename", i1, None, new, <<>>),
      Op("append", i1, None, None, <<m1, m2>>),
      Op("append", i1, None, None, <<bad>>),
      Op("replace", i1, None, None, <<m2, m1, m2>>),
      Op("replace", i1, None, None, <<m1, bad>>),
      Op("delete", i1, None, None, <<>>) }
=============================================================================
