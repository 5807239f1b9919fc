\* A task and a command on one volume of two files.
SPECIFICATION VolumeSpec
CONSTANTS
  Task = {t1}
  Command = {c1}
  Image = {i1}
  ImageOf <- OneImage
  Volume = {v1}
  Name = {n1, n2}
  MaxLen = 2
  None = None
  Free = Free
  Torn = Torn
SYMMETRY Symmetry
PROPERTIES UndisturbedCopies FilesLeaveOnPurpose
