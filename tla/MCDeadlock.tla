------------------------------ MODULE MCDeadlock ------------------------------
(***************************************************************************)
(* Programs for Deadlock: two actors, X and Y, and a third handler that is *)
(* a mixed handler or a monitor of the plain effect P, or a router of X.   *)
(***************************************************************************)
EXTENDS Deadlock, TLC

CONSTANTS X, Y, Z, P, hx, hy, hw, hz, t1, t2, only

Names ==
    << X, Y, Z, Servant(hz), Lock(hz), Servant(hx), Servant(hy), Servant(hw), Lock(hx), Lock(hy), Lock(hw) >>
ByName == [n \in Nodes |-> CHOOSE k \in 1..Len(Names) : Names[k] = n]

If(yes, S) == IF yes THEN S ELSE {}
Plain(effects) == effects \X {{}}

\* The third handler.
Thirds ==
    [face : {P}, serves : {TRUE}, receives : {FALSE}, stateful : {FALSE}, claims : {{}}]
        \cup [face : {P}, serves : {FALSE}, receives : {FALSE}, stateful : {TRUE}, claims : {{}}]
        \cup [face : {X}, serves : {FALSE}, receives : {TRUE}, stateful : {FALSE}, claims : {{only}}]
        \cup [face : {X}, serves : {FALSE}, receives : {TRUE}, stateful : {TRUE}, claims : SUBSET {only}]

\* Who waits and who binds whom, up to two levels deep, with the third handler at either
\* end; and whether X's handler or the third mints tasks, one after the other.
Extra == [waits |-> {}, binds |-> {}, mints |-> {}]
Extras ==
    {Extra}
        \cup {[Extra EXCEPT !.waits = {hz}, !.binds = b] :
                b \in {{}, {<<hx, hz>>}, {<<hx, hy>>, <<hy, hz>>}}}
        \cup {[Extra EXCEPT !.waits = {hx}, !.binds = {<<hz, hx>>}]}
        \cup {[Extra EXCEPT !.mints = {<<h, t1>>, <<t1, t2>>}] : h \in {hx, hz}}

Made(z, e, gates, dx, sx, dy, sy, dz, sz) ==
    [faces |-> hx :> Plain({X}) @@ hy :> Plain({Y}) @@ hz :> {<<z.face, z.claims>>},
     deps |-> hx :> Plain(dx) @@ hy :> dy @@ hz :> Plain(dz),
     serves |-> {hx, hy} \cup If(z.serves, {hz}),
     receives |-> If(z.receives, {hz}),
     stateful |-> If(z.stateful, {hz}),
     gates |-> gates,
     waits |-> e.waits,
     binds |-> e.binds,
     sends |-> hx :> sx @@ hy :> sy @@ hz :> sz,
     mints |-> e.mints,
     taskSends |-> t1 :> {} @@ t2 :> {Y}]

SmallPrograms ==
    {Made(z, e, gates, dx, sx, dy, sy, dz, {X, Y} \ dz) :
        z \in Thirds, e \in Extras, gates \in {{}, {hx}, {hx, hy}},
        dx \in {{}, {Y}, {P}}, sx \in {{}, {X}, {Y}},
        dy \in {{}, {<<X, {only}>>}, {<<P, {}>>}}, sy \in {{}, {X}},
        dz \in {{}, {Y}}}

\* A router of X that keeps state and sends to Y and Z; Z sends to X through an address, Y
\* depends on X, and Y's actors may send to one another.
Peers ==
    {[faces |-> hx :> Plain({X}) @@ hy :> Plain({Y}) @@ hw :> Plain({Z}) @@ hz :> Plain({X}),
      deps |-> hx :> {} @@ hy :> Plain({X}) @@ hw :> {} @@ hz :> {},
      serves |-> {hx, hy, hw, hz}, receives |-> {hz}, stateful |-> {hz},
      gates |-> {}, waits |-> {}, binds |-> {},
      sends |-> hx :> sx @@ hy :> sy @@ hw :> {X} @@ hz :> {Y, Z},
      mints |-> {}, taskSends |-> t1 :> {}] : sx \in SUBSET {X, Y, Z}, sy \in SUBSET {Y, Z}}
==============================================================================
