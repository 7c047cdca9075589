CONSTANTS
  agent = agent
  human = human
  key1 = key1
  key2 = key2
  nonce1 = nonce1
  nonce2 = nonce2
  token1 = token1
  token2 = token2
  Subjects = {agent, human}
  Keys = {key1, key2}
  Nonces = {nonce1, nonce2}
  Tokens = {token1, token2}
  Checked <- Assessed
  TTL = 1
  MaxTime = 2
  MaxChanges = 2
SPECIFICATION Spec
CHECK_DEADLOCK FALSE
INVARIANT AttestedOnOwnProof
