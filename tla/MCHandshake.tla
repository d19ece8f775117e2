---------------------------- MODULE MCHandshake ----------------------------
EXTENDS Handshake

CONSTANTS c1, c2, tok, pw

Auth(token, password) == [token |-> token, password |-> password]

MCCreds == {Auth(tok, NoSecret), Auth(NoSecret, pw)}
MCMaxSent == [c \in Conns |-> IF c \in Remote THEN 2 ELSE 1]
Setup(token, password, env) ==
    [mode |-> "Token", token |-> token, password |-> password, env |-> env]

MCSetups == {Setup(NoSecret, NoSecret, NoSecret), Setup(NoSecret, pw, NoSecret),
             Setup(NoSecret, pw, tok)}
MCScopeLists == {{"admin"}, {"read", "unknown"}}
=============================================================================
