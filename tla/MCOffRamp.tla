----------------------------- MODULE MCOffRamp ------------------------------
(***************************************************************************)
(* Two source chains, five oracles of which one is faulty, and reports     *)
(* with true and false roots; the false root has the hash of a true one    *)
(* and another interval.  The price is true under the first digest only.   *)
(***************************************************************************)
EXTENDS OffRamp

CONSTANTS o1, o2, o3, o4, o5, t1, t2, theOwner, evm, svm, ha, hb, fresh, wrong, d1, d2

MCSigner == {o1, o2, o3, o4, o5}
MCFaulty == {o5}
MCSender == {theOwner, t1, t2}

Root(chain, from, to, hash) ==
    [sourceChainSelector |-> chain, seqNrs |-> <<from, to>>, merkleRoot |-> hash]

MCTrueRoots == [digest \in {d1, d2} |-> {Root(evm, 1, 1, ha), Root(svm, 1, 2, hb)}]

MCTruePrices == [digest \in {d1, d2} |-> IF digest = d1 THEN {fresh} ELSE {}]

Report(prices, roots) == [priceUpdates |-> prices, merkleRoots |-> roots]

MCCommitReports ==
    {Report(Absent, <<Root(evm, 1, 1, ha), Root(svm, 1, 2, hb)>>),
     Report(fresh, <<Root(evm, 1, 1, ha)>>),
     Report(wrong, <<Root(evm, 1, 3, ha)>>)}

Execution(chain, messages, root) ==
    [sourceChainSelector |-> chain, messages |-> messages, root |-> root]

Message(dest, chain) == [destIsThis |-> dest, sourceChainSelector |-> chain]

MCExecutionReports ==
    {Execution(evm, {Message(TRUE, evm)}, ha), Execution(evm, {Message(TRUE, svm)}, hb),
     Execution(evm, {Message(FALSE, evm)}, ha), Execution(evm, {Message(TRUE, evm)}, Absent)}

OracleConfig(plugin, digest, f, verified, signers, transmitters) ==
    [ocrPluginType |-> plugin, configDigest |-> digest, bigF |-> f,
     isSignatureVerificationEnabled |-> verified,
     signers |-> Vector(signers), transmitters |-> Vector(transmitters)]

\* Among them one without enough signers, one with a repeated signer, and one
\* whose oracles do not sign.
MCConfigs ==
    {OracleConfig("commit", d1, 1, TRUE, <<o1, o2, o3, o5>>, <<t1>>),
     OracleConfig("commit", d2, 1, TRUE, <<o5, o4, o2, o1>>, <<t2, t1>>),
     OracleConfig("commit", d2, 1, TRUE, <<o5, o4, o4, o1>>, <<t2>>),
     OracleConfig("commit", d1, 1, TRUE, <<o1, o5>>, <<t1>>),
     OracleConfig("commit", d1, 1, FALSE, << >>, <<t1>>),
     OracleConfig("execute", d1, 1, FALSE, << >>, <<t1, t2>>),
     OracleConfig("execute", d1, 0, FALSE, << >>, <<t1>>),
     OracleConfig("execute", d1, 1, FALSE, << >>, <<t1, t1>>)}

=============================================================================
