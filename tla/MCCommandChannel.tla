---- MODULE MCCommandChannel ----
EXTENDS CommandChannel
====
