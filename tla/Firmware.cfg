\* Scaled down: 2 entries in the queue, 2 characters in the console, room for
\* one message of text, one buffer.
SPECIFICATION Spec
CONSTANTS
    QueueLength = 2
    ConsoleSize = 1
    MaxTrace = 100
    MessageLength = 96
    Messages = 1
    DmaBuffers = 1
INVARIANTS TypeOK NeverHangs FreshAfterStart StreamRuns ConsoleOverrun
PROPERTIES CommandRuns
