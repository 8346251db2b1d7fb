----------------------- MODULE MC_AuthorizationWindow -----------------------
(* The editor run by alice; mount and burn are org.disk.mount and          *)
(* org.disk.cd.burn.                                                       *)
EXTENDS AuthorizationWindow, TLC

CONSTANTS mount, burn, org, disk, cd, alice, bob, root, factory, strict, first

MCActions    == {mount, burn}
MCNamespaces == {org, disk, cd}
MCAbove      == (org :> {}) @@ (disk :> {org}) @@ (cd :> {disk, org})
                  @@ (mount :> {disk, org}) @@ (burn :> {cd, disk, org})
MCUsers      == {alice, bob, root}
MCAuths      == {[of |-> mount, uid |-> alice, by |-> Nobody], [of |-> mount, uid |-> alice, by |-> root],
                 [of |-> burn, uid |-> bob, by |-> alice]}
MCDefaults   == {factory, strict}
MCFactory    == [a \in MCActions |-> factory]
MCOne        == {first}
=============================================================================
