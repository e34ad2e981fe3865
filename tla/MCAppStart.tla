----------------------------- MODULE MCAppStart -----------------------------
(***************************************************************************)
(* Instances of AppStart for TLC. Each run varies the part of the          *)
(* configuration it is about and fixes the rest.                           *)
(***************************************************************************)
EXTENDS AppStart, TLC

CONSTANTS web, svc, svc2, m1, m2, d1, d2, r1, r2, u1

MCApps == {web, svc, svc2}
Two == {web, svc}
MCModules == {m1, m2}
MCDbs == {d1, d2}
MCRediss == {r1, r2}
MCUstms == {u1}

OwnNames(apps) == {<<a, "name">> : a \in apps}

NoModules == [m \in Module |-> None]
NoStores == [f \in File |-> [u \in Ustm |-> "absent"]]

\* Modules and databases: two applications, each with or without a file, with
\* a default database or none and one module that may name a database itself.
MCBindingConfs ==
    {[apps |-> Two, web |-> {web}, priority |-> pr, given |-> {}, files |-> OwnNames(fs),
      owner |-> (m1 :> web @@ m2 :> svc),
      moduleDb |-> (m1 :> None @@ m2 :> own),
      appDb |-> (web :> d1 @@ svc :> ad @@ svc2 :> None),
      appRedis |-> [a \in App |-> None],
      appUstm |-> [a \in App |-> None],
      dbs |-> [f \in File |-> IF f[1] = web THEN wd ELSE sd],
      redises |-> [f \in File |-> {}],
      store |-> NoStores] :
        pr \in {pw @@ (svc2 :> 900) : pw \in [Two -> {900, 200}]}, fs \in {{web}, {web, svc}},
        own \in {None, d2}, ad \in {None, d1, d2},
        wd \in {{d1}, {d2}}, sd \in SUBSET Db}

\* State managers and redis pools: two web applications.
MCSessionConfs ==
    {[apps |-> Two, web |-> App, priority |-> pr, given |-> {}, files |-> OwnNames(fs),
      owner |-> NoModules,
      moduleDb |-> [m \in Module |-> None],
      appDb |-> [a \in App |-> None],
      appRedis |-> (web :> wr @@ svc :> sr @@ svc2 :> None),
      appUstm |-> (web :> u1 @@ svc :> su @@ svc2 :> None),
      dbs |-> [f \in File |-> {}],
      redises |-> [f \in File |-> IF f[1] = web THEN {r1} ELSE {r1, r2}],
      store |-> [f \in File |-> (u1 :> IF f[1] = web THEN ws ELSE ss)]] :
        pr \in {[a \in App |-> 900], (web :> 900 @@ svc :> 200 @@ svc2 :> 900),
                (web :> 200 @@ svc :> 900 @@ svc2 :> 900)},
        fs \in {{web}, {web, svc}},
        wr \in {None, r1}, sr \in {None, r1, r2}, su \in {None, u1},
        ws \in {"jwt", r1, "invalid"}, ss \in {"absent", r1, r2}}

\* Mounting: three applications of any priority, with any files, some of them
\* given a file name.
MCMountConfs ==
    {[apps |-> App, web |-> {web}, priority |-> pr, given |-> gs, files |-> fs,
      owner |-> NoModules,
      moduleDb |-> [m \in Module |-> None],
      appDb |-> [a \in App |-> None],
      appRedis |-> [a \in App |-> None],
      appUstm |-> [a \in App |-> None],
      dbs |-> [f \in File |-> {}],
      redises |-> [f \in File |-> {}],
      store |-> NoStores] :
        pr \in {[a \in App |-> 900], (web :> 200 @@ svc :> 900 @@ svc2 :> 600)},
        gs \in {{}, {svc}},
        fs \in {OwnNames({web}), OwnNames({web, svc2}), OwnNames(App),
                {<<svc, "given">>, <<web, "name">>}}}

MCConfs == MCBindingConfs \cup MCSessionConfs \cup MCMountConfs
=============================================================================
