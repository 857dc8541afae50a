-------------------------- MODULE MCMultiNodeTestnet --------------------------
\* Values for the constants of MultiNodeTestnet.
EXTENDS MultiNodeTestnet

CONSTANT X  \* an amount that is not a number

\* A list that is short and has an entry to skip, one that no account can pay,
\* and one that is refused.
MCAmounts == {<<X, 300>>, <<501>>, <<-1, 100>>}
MCSkipping == {<<X, 300>>}
MCPorts == {<<>>, <<47222, 50434>>}
MCDefaultPorts == {<<>>}
=============================================================================
