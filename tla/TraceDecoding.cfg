CONSTANTS
  a1 = a1
  a2 = a2
  s1 = s1
  s2 = s2
  v1 = v1
  zero = zero
  BlockNum = BlockNum
  ChainId = ChainId
  NoVal = NoVal
  MaxTxns = 2
  Accounts <- MCAccounts
  Slots <- MCSlots
  HashedAddr <- MCHashedAddr
  HashedSlot <- MCHashedSlot
  SlotVals <- MCSlotVals
  ZeroSlotVal <- zero
  TxnInfos <- MCTxnInfos
  PreImages <- MCPreImages
  WithdrawalLists <- MCWithdrawalLists

SPECIFICATION Spec

INVARIANT TypeOK
INVARIANT CountersMatchBlock
INVARIANT RootsChain
INVARIANT CollapsedSiblingsKept
INVARIANT StorageRootsConsistent
INVARIANT SelfDestructRemoves
INVARIANT StorageTrieLostOnlyBySelfDestruct
