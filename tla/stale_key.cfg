SPECIFICATION Spec
CONSTANT MaxKeys = 2
PROPERTY ReadsOnlyWhatWasTyped
