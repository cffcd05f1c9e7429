\* Two calls at a time about one name, room for two files.
CONSTANTS
  Keys = {k1}
  Folders = {f1}
  FolderOf <- OneFolder
  Calls = {c1, c2}
  Inodes = {i1, i2}
  NoInode = none
  NoFolder = nowhere
  Attempts = 3
SPECIFICATION FairStoreSpec
PROPERTIES ImplementsFileStore CallsEnd
