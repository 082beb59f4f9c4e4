---------------------------- MODULE MCManifests ----------------------------
(***************************************************************************)
(* Small instances of Manifests for TLC.  Each run presents the manifests, *)
(* requests, pins and views its question needs; the actions are unchanged. *)
(***************************************************************************)
EXTENDS Manifests, TLC

CONSTANTS here, peer, r1, r2, k1, k2, k3, p1, p2, p3, m1, m2, s1, s2, read, write, z1,
          noPub, noRoot, noLimit

Nothing == {}
OneRoot == {r1}
TwoRoots == {r1, r2}
OneKeyId == {k1}
TwoKeyIds == {k1, k2}
TwoPubKeys == {p1, p2}
ThreeKeyIds == {k1, k2, k3}
ThreePubKeys == {p1, p2, p3}
OneManifest == {m1}
OnePeer == {peer}

\* A manifest for this node, signed by the holder of p1 and by its subject.
Plain(id, r, k) ==
  [manifestId |-> id, nodeId |-> here, rootId |-> r, rootKeyId |-> k, rootSig |-> p1,
   subject |-> s1, subjectPopSig |-> s1, permissions |-> {write}, notBefore |-> 1,
   expiresAt |-> 9, maxUses |-> noLimit, maxPerWindow |-> noLimit]

Asks(id, n, at) == [manifestId |-> id, subject |-> s1, sig |-> s1, permission |-> write,
                    useSeq |-> n, timestamp |-> at]

\* Lifecycle: a manifest under either key, one that nobody may mint, one use each.
LifeDelegations == {Plain(m1, r1, k1), Plain(m1, r1, k2), [Plain(m1, r1, k1) EXCEPT !.rootSig = p2],
                    [Plain(m1, r1, k1) EXCEPT !.nodeId = peer],
                    [Plain(m1, r1, k1) EXCEPT !.subjectPopSig = s2]}
LifeRequests == {Asks(m1, n, 1) : n \in 0 .. 1} \cup {[Asks(m1, 0, 1) EXCEPT !.permission = read],
                                                     [Asks(m1, 0, 1) EXCEPT !.sig = s2]}

\* Peers: r2 is the peer's root; r1, and r2 too, may be born here.  Both name their key k1.
PeerDelegations == {[Plain(m1, r2, k1) EXCEPT !.maxUses = 2], Plain(m1, r1, k1),
                    [Plain(m1, r2, k1) EXCEPT !.rootSig = p2]}
PeerPins == {[source |-> peer, rootKeyId |-> k1, publicKey |-> p, rootId |-> r] :
               p \in TwoPubKeys, r \in {r2, noRoot}}
PeerView(e, gone) == [source |-> peer, rootId |-> r2, rootKeyId |-> k1, sig |-> p1,
                      epoch |-> e, revoked |-> gone]
PeerViews == {PeerView(0, {}), PeerView(1, {m1}), PeerView(1, {}), PeerView(2, {}),
              [PeerView(2, {}) EXCEPT !.sig = p2]}

\* What an envelope may carry beside the signed manifest.
CarriedLists == {{read, write}}

\* Both tables: a manifest that is promoted, and one of the same name minted here
\* with a signed rate, whichever comes first.
UsedDelegations == PeerDelegations \cup
  {[Plain(m1, r1, k1) EXCEPT !.maxPerWindow = [capacity |-> 1, windowMs |-> 2], !.maxUses = 2,
                             !.expiresAt = 3]}
UsedRequests == {Asks(m1, n, t) : n \in 0 .. 2, t \in {1, 3}}

\* Envelopes that carry a list of their own: a request for what nobody signed.
CarriedRequests == {Asks(m1, 0, 1), [Asks(m1, 0, 1) EXCEPT !.permission = read]}

=============================================================================
