------------------------------- MODULE MCQueue -------------------------------
\* Small instances of the outbound queue.  The configurations differ in who
\* sends, what is enqueued and whether a request may outlive its caller.
EXTENDS OutboundQueueInvariant

\* Every operation was captured from one chat.
MCChatOf == [o \in Operation |-> CHOOSE c \in Chat : TRUE]
=============================================================================
