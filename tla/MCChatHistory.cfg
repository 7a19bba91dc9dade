\* Three messages, pages of one, one client; messages stamped in one second
\* are stored in another order, or a second later.
CONSTANTS
  Msgs = {1, 2, 3}
  Walks = {w1}
  MessagesLimit = 1
  MaxChatMessages = 2
  JoinedAt = 1
  MaxTime = 2
SPECIFICATION Spec
INVARIANTS
  WalkMissesNothing
  ListenerMissesNothing
  RepeatsOnlyIfOvertaken
